---------------------------- MODULE Spec2Model ----------------------------
(***************************************************************************)
(* A model of the NP-chunking tool chain of ng-tagger:                     *)
(*   - build_features.py: read_wsj, the lexical analyzers, token_feats,    *)
(*     write_features and main;                                            *)
(*   - analyze_bio_violations.py: the two readers and the O -> I-NP scan.  *)
(*                                                                         *)
(* Representation.  A Python str is a sequence of one-character strings,   *)
(* so that lower(), startswith(), slicing and the regular expressions are  *)
(* computed, not assumed.  A line of a file is the sequence of the fields  *)
(* line.split("\t") returns for it (split and "\t".join are inverse to     *)
(* each other on lines); the blank line "" is the line whose only field is *)
(* the empty string.  A file is the sequence of its lines.  A feature      *)
(* string f"name={a}+{b}" is the tuple <<"name", a, b>> and a bare flag    *)
(* "BOS" is <<"BOS">>.  Python list positions are 0-based, TLA+ sequence   *)
(* positions 1-based: subscript(s, j) is Python's s[j].                    *)
(***************************************************************************)
EXTENDS Integers, Sequences, FiniteSets, TLC

\* ------------------------------------------------------------------------
\* Bounds of the model
\* ------------------------------------------------------------------------

\* build_features: the longest input file, in lines
MaxLines == 4

\* token_feats: the longest sentence features are extracted from
MaxSentLen == 5

\* analyze_bio_violations: the longest input files, in lines
MaxTagLines == 4

\* ------------------------------------------------------------------------
\* Python values
\* ------------------------------------------------------------------------

\* None: a value that is no str of the model
None == <<"<None>">>

\* What a failed subscript stands for (IndexError): no str either
IndexError == <<"<IndexError>">>

UpperAlpha == <<"A","B","C","D","E","F","G","H","I","J","K","L","M",
                "N","O","P","Q","R","S","T","U","V","W","X","Y","Z">>

LowerAlpha == <<"a","b","c","d","e","f","g","h","i","j","k","l","m",
                "n","o","p","q","r","s","t","u","v","w","x","y","z">>

DigitChars == {"0","1","2","3","4","5","6","7","8","9"}

UpperChars == {UpperAlpha[k] : k \in 1..Len(UpperAlpha)}

LowerChars == {LowerAlpha[k] : k \in 1..Len(LowerAlpha)}

ch_isupper(c) == c \in UpperChars

ch_islower(c) == c \in LowerChars

ch_isdigit(c) == c \in DigitChars

ch_isalpha(c) == ch_isupper(c) \/ ch_islower(c)

ch_lower(c) ==
    IF ch_isupper(c)
    THEN LowerAlpha[CHOOSE k \in 1..Len(UpperAlpha) : UpperAlpha[k] = c]
    ELSE c

ch_upper(c) ==
    IF ch_islower(c)
    THEN UpperAlpha[CHOOSE k \in 1..Len(LowerAlpha) : LowerAlpha[k] = c]
    ELSE c

\* str.lower()
str_lower(s) == [k \in 1..Len(s) |-> ch_lower(s[k])]

\* str.upper()
str_upper(s) == [k \in 1..Len(s) |-> ch_upper(s[k])]

\* str.isupper(): at least one cased character and no lowercase one
str_isupper(s) ==
    /\ \E k \in 1..Len(s) : ch_isupper(s[k])
    /\ \A k \in 1..Len(s) : ~ch_islower(s[k])

\* s.startswith(p)
\* a test for the whole string
startswith_whole(s, p) == s = p

startswith(s, p) ==
    /\ Len(p) <= Len(s)
    /\ \A k \in 1..Len(p) : s[k] = p[k]

\* the slice s[a:] for a >= 0
slice_from(s, a) == IF a >= Len(s) THEN <<>> ELSE SubSeq(s, a + 1, Len(s))

\* the slice s[:b] for b >= 0
slice_to(s, b) == IF b >= Len(s) THEN s ELSE SubSeq(s, 1, b)

\* Python's s[j] on a list: negative j counts from the end, and a j outside
\* -len..len-1 raises IndexError
subscript(s, j) ==
    IF 0 <= j /\ j < Len(s) THEN s[j + 1]
    ELSE IF j < 0 /\ -j <= Len(s) THEN s[Len(s) + j + 1]
    ELSE <<IndexError, IndexError, IndexError>>

\* max(0, n) and min(a, b)
max0(n) == IF n > 0 THEN n ELSE 0

min2(a, b) == IF a < b THEN a ELSE b

\* range(a, b)
range(a, b) == a..(b - 1)

\* ------------------------------------------------------------------------
\* The tag set and the lexicon constants of build_features.py
\* ------------------------------------------------------------------------

T_NN == <<"N","N">>
T_NNS == <<"N","N","S">>
T_NNP == <<"N","N","P">>
T_NNPS == <<"N","N","P","S">>
T_JJ == <<"J","J">>
T_JJR == <<"J","J","R">>
T_JJS == <<"J","J","S">>
T_RB == <<"R","B">>
T_RBR == <<"R","B","R">>
T_RBS == <<"R","B","S">>
T_VB == <<"V","B">>
T_VBD == <<"V","B","D">>
T_VBZ == <<"V","B","Z">>
T_VBP == <<"V","B","P">>
T_VBN == <<"V","B","N">>
T_MD == <<"M","D">>
T_DT == <<"D","T">>
T_PDT == <<"P","D","T">>
T_WDT == <<"W","D","T">>
T_WP == <<"W","P">>
T_WRB == <<"W","R","B">>
T_PRP == <<"P","R","P">>
T_PRPS == <<"P","R","P","$">>
T_IN == <<"I","N">>
T_CD == <<"C","D">>
T_CC == <<"C","C">>
T_TO == <<"T","O">>
T_POS == <<"P","O","S">>
T_LRB == <<"-","L","R","B","-">>
T_RRB == <<"-","R","R","B","-">>
Comma == <<",">>
Period == <<".">>
Colon == <<":">>
Semicolon == <<";">>
OpenQuotes == <<"bquote","bquote">>
CloseQuotes == <<"'","'">>
\* the double quote is the character "dquote" and the backquote the
\* character "bquote" (named, not written)
DoubleQuote == <<"dquote">>
Backtick == <<"bquote">>

w_and == <<"a","n","d">>
w_or == <<"o","r">>
w_amp == <<"&">>
w_that == <<"t","h","a","t">>
w_more == <<"m","o","r","e">>
w_most == <<"m","o","s","t">>

DET_WORDS ==
    { <<"t","h","e">>, <<"a">>, <<"a","n">>, <<"t","h","i","s">>, w_that,
      <<"t","h","e","s","e">>, <<"t","h","o","s","e">> }

PREP_WORDS ==
    { <<"o","f">>, <<"i","n">>, <<"o","n">>, <<"a","t">>, <<"f","o","r">>,
      <<"w","i","t","h">>, <<"b","y">>, <<"t","o">>, <<"f","r","o","m">>,
      <<"a","s">>, <<"i","n","t","o">>, <<"o","v","e","r">>,
      <<"u","n","d","e","r">> }

\* the chunk labels
B_NP == <<"B","-","N","P">>
I_NP == <<"I","-","N","P">>
O_tag == <<"O">>

\* ------------------------------------------------------------------------
\* Lexical analyzers
\* ------------------------------------------------------------------------

\* _digit_re.search(w): some character is a digit
has_digit(w) == \E k \in 1..Len(w) : ch_isdigit(w[k])

\* \d+
all_digits(s) == Len(s) >= 1 /\ \A k \in 1..Len(s) : ch_isdigit(s[k])

\* \d{1,3}(?:,\d{3})+
grouped_digits(s) ==
    \E h \in 1..3 :
        /\ Len(s) > h
        /\ (Len(s) - h) % 4 = 0
        /\ \A k \in 1..Len(s) :
              IF k > h /\ (k - h) % 4 = 1 THEN s[k] = "," ELSE ch_isdigit(s[k])

\* (?:\d{1,3}(?:,\d{3})+|\d+)(?:\.\d+)?
number_body(s) ==
    LET int_part(t) == all_digits(t) \/ grouped_digits(t)
    IN  \/ int_part(s)
        \/ \E k \in 1..Len(s) :
              /\ s[k] = "."
              /\ int_part(SubSeq(s, 1, k - 1))
              /\ all_digits(SubSeq(s, k + 1, Len(s)))

\* _number_re.match(w), anchored at both ends
is_number(w) ==
    \/ number_body(w)
    \/ (Len(w) >= 1 /\ w[1] \in {"+", "-"} /\ number_body(Tail(w)))

\* the symbol of one character in word_shape
shape_class(ch) ==
    IF ch_isupper(ch) THEN "X"
    ELSE IF ch_islower(ch) THEN "x"
    ELSE IF ch_isdigit(ch) THEN "d"
    ELSE IF ch \in {"-", "'", "/"} THEN ch
    ELSE "_"

\* a loop that compresses nothing
RECURSIVE shape_from_uncompressed(_, _, _)
shape_from_uncompressed(w, k, prev) ==
    IF k > Len(w) THEN <<>>
    ELSE <<shape_class(w[k])>> \o shape_from_uncompressed(w, k + 1, prev)

\* a loop that compresses the runs of every symbol but the three copied ones
RECURSIVE shape_from_all_runs(_, _, _)
shape_from_all_runs(w, k, prev) ==
    IF k > Len(w) THEN <<>>
    ELSE LET cur == shape_class(w[k])
         IN  IF cur \in {"X", "x", "d", "_"} /\ prev = cur
             THEN shape_from_all_runs(w, k + 1, prev)
             ELSE <<cur>> \o shape_from_all_runs(w, k + 1, cur)

\* the loop of word_shape from character k on, prev the last symbol appended
RECURSIVE shape_from(_, _, _)
shape_from(w, k, prev) ==
    IF k > Len(w) THEN <<>>
    ELSE LET cur == shape_class(w[k])
         IN  IF cur \in {"X", "x", "d"} /\ prev = cur
             THEN shape_from(w, k + 1, prev)
             ELSE <<cur>> \o shape_from(w, k + 1, cur)

word_shape(w) == shape_from(w, 1, "")

suf(w, n) ==
    LET wl == str_lower(w)
    IN  IF Len(wl) >= n THEN SubSeq(wl, Len(wl) - n + 1, Len(wl)) ELSE wl

\* a mapping that answers nothing for the tags it does not know
coarse_pos_known_only(pos) ==
    IF startswith(pos, T_NN) THEN <<"N">>
    ELSE IF startswith(pos, T_JJ) THEN <<"J">>
    ELSE IF startswith(pos, T_RB) THEN <<"R">>
    ELSE IF startswith(pos, T_VB) THEN <<"V">>
    ELSE IF pos \in {T_DT, T_IN, T_CD, T_CC, T_TO, T_POS} THEN pos
    ELSE IF pos \in {T_PRP, T_PRPS} THEN T_PRP
    ELSE IF startswith(pos, <<"W">>) THEN <<"W">>
    ELSE IF pos \in {Comma, Period, Colon, Semicolon, T_LRB, T_RRB,
                     OpenQuotes, CloseQuotes}
         THEN <<"P","U","N","C","T">>
    ELSE <<>>

coarse_pos(pos) ==
    IF startswith(pos, T_NN) THEN <<"N">>
    ELSE IF startswith(pos, T_JJ) THEN <<"J">>
    ELSE IF startswith(pos, T_RB) THEN <<"R">>
    ELSE IF startswith(pos, T_VB) THEN <<"V">>
    ELSE IF pos = T_DT THEN T_DT
    ELSE IF pos \in {T_PRP, T_PRPS} THEN T_PRP
    ELSE IF pos \in {T_IN} THEN T_IN
    ELSE IF pos \in {T_CD} THEN T_CD
    ELSE IF pos \in {T_CC} THEN T_CC
    ELSE IF pos \in {T_TO} THEN T_TO
    ELSE IF pos \in {T_POS} THEN T_POS
    ELSE IF startswith(pos, <<"W">>) THEN <<"W">>
    ELSE IF pos \in {Comma, Period, Colon, Semicolon, T_LRB, T_RRB,
                     OpenQuotes, CloseQuotes}
         THEN <<"P","U","N","C","T">>
    ELSE pos

\* ------------------------------------------------------------------------
\* Feature extraction
\* ------------------------------------------------------------------------

\* a bounds test that forgets the lower bound: i < len(sent)
in_sent_no_lower_bound(sent, i) == i < Len(sent)

\* the test 0 <= i < len(sent) of safe_tok
in_sent(sent, i) == 0 <= i /\ i < Len(sent)

safe_tok(sent, i) == IF in_sent(sent, i) THEN subscript(sent, i) ELSE None

\* the positions safe_tok(sent, i) subscripts sent at
safe_tok_reads(sent, i) == IF in_sent(sent, i) THEN {i} ELSE {}

\* a scan that starts at i-3, i-5 without max(0, ...)
scan_lo_unclamped(i, back) == i - back

\* the first index of the backward scans: max(0, i-3), max(0, i-5)
scan_lo(i, back) == max0(i - back)

\* the end of the window of the proper-noun count: min(len(sent), i+4)
scan_hi(sent, i) == min2(Len(sent), i + 4)

\* 'true' / 'false'
tf(b) == IF b THEN <<"t","r","u","e">> ELSE <<"f","a","l","s","e">>

\* the unknown-state marker of the previous-label slot
PREV_BIO == <<"@","@">>

\* an extractor seeded with the gold history: the label of the previous
\* token, the marker for the first token
prev_bio_slot_gold(sent, i) ==
    IF i > 0 THEN subscript(sent, i - 1)[3] ELSE PREV_BIO

\* the value token_feats puts in the previous-label slot of token i: the
\* marker, whatever the labels of the sentence
prev_bio_slot(sent, i) == PREV_BIO

\* a conditional feats.append / feats.extend
when(c, fs) == IF c THEN fs ELSE <<>>

CC_WORDS == {w_and, w_or, w_amp}

NOUN_TAGS == {T_NN, T_NNS, T_NNP, T_NNPS}

\* the test of the quantifier scan
is_quant(tok) == tok[2] \in {T_CD, T_DT, T_PRPS}

\* the test of the comma scan
is_comma(tok) == tok[1] = Comma

\* for j in range(max(0, i-3), i): if sent[j][1] in {...}: ... break
has_quant(sent, i) ==
    \E j \in range(scan_lo(i, 3), i) : is_quant(subscript(sent, j))

\* a CC_F2 that looks for a comma anywhere before the token
has_prev_comma_anywhere(sent, i) ==
    \E j \in range(0, i) : is_comma(subscript(sent, j))

\* for j in range(max(0, i-5), i): if sent[j][0] == ',': ... break
has_prev_comma(sent, i) ==
    \E j \in range(scan_lo(i, 5), i) : is_comma(subscript(sent, j))

\* the count of NNP tags in range(max(0, i-3), min(len(sent), i+4)), i excluded
nnp_count(sent, i) ==
    Cardinality({j \in range(scan_lo(i, 3), scan_hi(sent, i)) :
                    j # i /\ subscript(sent, j)[2] = T_NNP})

\* a CC_F3 whose tests are two ifs in a row: the sentence-level flag for
\* every coordination of nominals, and the phrase-level flag when a noun
\* follows the second conjunct
cc_level_two_ifs(n2) ==
    << <<"cc_sentence_level">> >>
    \o (IF n2 # None /\ n2[2] \in NOUN_TAGS
        THEN << <<"cc_phrase_level">> >> ELSE <<>>)

\* CC_F3, lines 253-260: what follows the second conjunct decides between
\* the phrase-level and the sentence-level flag
cc_level(n2) ==
    IF n2 # None
    THEN IF n2[2] \in NOUN_TAGS
         THEN << <<"cc_phrase_level">> >>
         ELSE << <<"cc_sentence_level">> >>
    ELSE << <<"cc_sentence_level">> >>

token_feats(sent, i, include_prev_bio) ==
    LET tok == subscript(sent, i)
        w == tok[1]
        pos == tok[2]
        wl == str_lower(w)
        p2 == safe_tok(sent, i - 2)
        p1 == safe_tok(sent, i - 1)
        n1 == safe_tok(sent, i + 1)
        n2 == safe_tok(sent, i + 2)
        hasp1 == p1 # None
        hasp2 == p2 # None
        hasn1 == n1 # None
        hasn2 == n2 # None
        base ==
            << <<"w", w>>,
               <<"wl", wl>>,
               <<"pos", pos>>,
               <<"cpos", coarse_pos(pos)>>,
               <<"shape", word_shape(w)>>,
               <<"suf2", suf(w, 2)>>,
               <<"suf3", suf(w, 3)>>,
               <<"isTitle", tf(str_isupper(slice_to(w, 1))
                               /\ slice_from(wl, 1) # str_upper(slice_from(wl, 1)))>>,
               <<"isAllCaps", tf(str_isupper(w)
                                 /\ \E k \in 1..Len(w) : ch_isalpha(w[k]))>>,
               <<"hasHyphen", tf(\E k \in 1..Len(w) : w[k] = "-")>>,
               <<"hasDigit", tf(has_digit(w))>>,
               <<"isNumber", tf(is_number(w))>>,
               <<"isDet", tf(wl \in DET_WORDS)>>,
               <<"isPrep", tf(wl \in PREP_WORDS)>> >>
        boundary ==
            when(~hasp1, << <<"BOS">> >>)
            \o when(~hasp2, << <<"BOS2">> >>)
            \o when(~hasn1, << <<"EOS">> >>)
            \o when(~hasn2, << <<"EOS2">> >>)
        quotes ==
            when(hasp1 /\ p1[1] \in {OpenQuotes, DoubleQuote, Backtick},
                 << <<"after_open_quote">> >>)
            \o when(pos \in {OpenQuotes, DoubleQuote, Backtick}
                    /\ hasn1 /\ startswith(n1[2], T_NN),
                    << <<"quote_before_nn">> >>)
        neighbours ==
            when(hasp1, << <<"p1w", p1[1]>>,
                           <<"p1wl", str_lower(p1[1])>>,
                           <<"p1pos", p1[2]>>,
                           <<"p1cpos", coarse_pos(p1[2])>> >>)
            \o when(hasn1, << <<"n1w", n1[1]>>,
                              <<"n1pos", n1[2]>>,
                              <<"n1cpos", coarse_pos(n1[2])>> >>)
        window2 ==
            when(hasp2, << <<"p2pos", p2[2]>>,
                           <<"p2cpos", coarse_pos(p2[2])>> >>)
            \o when(hasn2, << <<"n2pos", n2[2]>> >>)
        ngrams ==
            when(hasp1, << <<"p1pos+pos", p1[2], pos>> >>)
            \o when(hasn1, << <<"pos+n1pos", pos, n1[2]>> >>)
            \o when(hasp1 /\ hasn1, << <<"p1pos+pos+n1pos", p1[2], pos, n1[2]>> >>)
            \o when(hasp2 /\ hasp1,
                    << <<"p2pos+p1pos", p2[2], p1[2]>>,
                       <<"p2pos+p1pos+pos", p2[2], p1[2], pos>> >>)
            \o when(hasn1 /\ hasn2,
                    << <<"n1pos+n2pos", n1[2], n2[2]>>,
                       <<"pos+n1pos+n2pos", pos, n1[2], n2[2]>> >>)
        pn_run ==
            when(pos = T_NNP /\ ((hasp1 /\ p1[2] = T_NNP) \/ (hasn1 /\ n1[2] = T_NNP)),
                 << <<"pnRun", tf(TRUE)>> >>)
        prev_bio ==
            when(include_prev_bio,
                 << <<"PrevBIO", prev_bio_slot(sent, i)>> >>
                 \o when(hasp1, << <<"PrevBIO+p1pos", prev_bio_slot(sent, i), p1[2]>> >>)
                 \o << <<"PrevBIO+pos", prev_bio_slot(sent, i), pos>> >>)
        that_comp ==
            when(hasp1 /\ str_lower(p1[1]) = w_that /\ p1[2] = T_IN,
                 << <<"after_that_comp">> >>)
        coord ==
            when(wl \in CC_WORDS /\ hasp1 /\ p1[1] \in {Comma, Semicolon},
                 << <<"coord_after_punct">> >>)
            \o when(hasp1 /\ hasn1 /\ startswith(p1[2], T_NNP)
                    /\ startswith(n1[2], T_NNP),
                    << <<"nnp_and_nnp">> >>)
            \o when(hasp1 /\ hasn1 /\ hasn2 /\ startswith(p1[2], T_JJ)
                    /\ startswith(n1[2], T_JJ) /\ startswith(n2[2], T_NN),
                    << <<"adj_coord_before_n">> >>)
            \o when(has_quant(sent, i), << <<"quant_in_prev3">> >>)
        cc_f1 ==
            when(pos \in NOUN_TAGS
                 /\ hasp1 /\ str_lower(p1[1]) \in CC_WORDS
                 /\ hasn1 /\ n1[2] \in {Period, Comma, Semicolon, Colon, T_VBD,
                                        T_VBZ, T_VBP, T_VBN, T_MD, T_IN},
                 << <<"noun_after_cc_at_boundary">> >>)
        cc_f2 ==
            when(hasp1 /\ str_lower(p1[1]) \in {w_and, w_or}
                 /\ has_prev_comma(sent, i) /\ pos \in NOUN_TAGS,
                 << <<"list_coord_after_comma">> >>)
        cc_f3 ==
            when(wl \in CC_WORDS /\ hasp1 /\ hasn1
                 /\ p1[2] \in {T_NN, T_NNS, T_NNP, T_NNPS, T_JJ, T_CD}
                 /\ n1[2] \in NOUN_TAGS,
                 cc_level(n2))
        cc_f4 ==
            when(hasp1 /\ p1[2] = T_CC /\ pos \in NOUN_TAGS,
                 << <<"noun_after_cc">> >>)
        comma_ctx ==
            when(pos = Comma /\ hasp1 /\ hasn1,
                 IF p1[2] = T_NNP /\ n1[2] = T_NNP
                 THEN when(nnp_count(sent, i) >= 3, << <<"comma_in_nnp_list">> >>)
                 ELSE when(p1[2] = T_NNP
                           /\ n1[2] \in {T_WP, T_WDT, T_WRB, T_VBD, T_VBZ,
                                         T_VBP, T_RB, T_IN},
                           << <<"comma_appositive">> >>))
        linguistic ==
            when(hasp1 /\ str_lower(p1[1]) \in {<<"$">>, <<"#">>, <<"%">>},
                 << <<"prev_is_symbol">> >>)
            \o when(pos \in {T_DT, T_PDT, T_WDT, T_PRPS}, << <<"is_determiner">> >>)
            \o when(startswith(pos, T_JJ) /\ hasn1 /\ startswith(n1[2], T_NN),
                    << <<"jj_before_noun">> >>)
            \o when(wl \in {w_more, w_most} /\ pos \in {T_RBR, T_RBS, T_JJR, T_JJS}
                    /\ hasn1
                    /\ (startswith(n1[2], T_JJ) \/ startswith(n1[2], T_NN)),
                    << <<"more_most_before_np">> >>)
    IN  base \o boundary \o quotes \o neighbours \o window2 \o ngrams
        \o pn_run \o prev_bio \o that_comp \o coord \o cc_f1 \o cc_f2
        \o cc_f3 \o cc_f4 \o comma_ctx \o linguistic

\* The positions of sent that token_feats(sent, i) subscripts: sent[i], the
\* four neighbour lookups, and the three scans (the two backward scans stop
\* at the first hit)
token_reads(sent, i) ==
    LET tok == subscript(sent, i)
        pos == tok[2]
        p1 == safe_tok(sent, i - 1)
        n1 == safe_tok(sent, i + 1)
        quant_range == range(scan_lo(i, 3), i)
        comma_range == range(scan_lo(i, 5), i)
    IN  {i}
        \cup safe_tok_reads(sent, i - 2) \cup safe_tok_reads(sent, i - 1)
        \cup safe_tok_reads(sent, i + 1) \cup safe_tok_reads(sent, i + 2)
        \cup {j \in quant_range :
                \A j2 \in quant_range : j2 < j => ~is_quant(subscript(sent, j2))}
        \cup (IF p1 # None /\ str_lower(p1[1]) \in {w_and, w_or}
              THEN {j \in comma_range :
                      \A j2 \in comma_range :
                          j2 < j => ~is_comma(subscript(sent, j2))}
              ELSE {})
        \cup (IF pos = Comma /\ p1 # None /\ n1 # None
                 /\ p1[2] = T_NNP /\ n1[2] = T_NNP
              THEN range(scan_lo(i, 3), scan_hi(sent, i)) \ {i}
              ELSE {})

\* ------------------------------------------------------------------------
\* State
\* ------------------------------------------------------------------------

VARIABLES
    \* build_features.py main
    pc,          \* where main is
    mode,        \* sys.argv[1].lower()
    in_file,     \* the lines of INPUT_PATH
    out_file,    \* the lines of OUTPUT_PATH, NoFile while it does not exist
    lineno,      \* read_wsj: the number of lines consumed
    sents,       \* read_wsj: sents; then main's sents
    cur,         \* read_wsj: cur
    err,         \* the line quoted by the ValueError, None when none was raised
    wi,          \* write_features: the 0-based position of sent in sents
    wj,          \* write_features: i of enumerate(sent)
    status,      \* what the sanity check printed
    \* token_feats called on its own
    sent,        \* the sentence
    idx,         \* the index
    feats,       \* the list returned
    reads,       \* the positions of sent subscripted by the call
    \* analyze_bio_violations.py main
    pos_file,    \* the lines of WSJ_24.pos
    gold_file,   \* the lines of WSJ_24.pos-chunk
    pred_file,   \* the lines of response.chunk
    pos_sents,   \* read_pos_file(pos_path)
    gold_sents,  \* read_bio_file(gold_path)
    pred_sents,  \* read_bio_file(pred_path)
    violations,  \* the records appended so far
    zi,          \* the number of triples the outer zip has yielded
    sent_idx,    \* sent_idx
    tok_i,       \* the number of triples the inner zip has yielded
    prev_pred,   \* prev_pred
    report,      \* the counters printed by the pattern analysis
    \* word_shape and coarse_pos called on their own
    word,        \* the argument
    shape,       \* word_shape(word), None before the call
    cpos,        \* coarse_pos(word), None before the call
    \* error_analysis.py main
    key,         \* read_lines(key_path)
    resp,        \* read_lines(resp_path)
    dev_pos,     \* read_lines(dev_pos_path), None when absent or rejected
    line_i,      \* i of the loop over the lines
    correct,     \* correct
    incorrect,   \* incorrect
    conf,        \* the keys counted in conf, in the order of the increments
    top_tok,     \* the keys counted in top_tok
    top_ctx,     \* the keys counted in top_ctx
    boundary,    \* the keys counted in boundary
    conj_punct,  \* the keys counted in conj_punct
    stderr,      \* the diagnostics printed to sys.stderr
    out_dir,     \* the files written into out_dir
    \* batch_test.py main and its worker processes
    stage,       \* where run_experiment is, for every experiment
    futures,     \* what the future of every experiment holds
    completed,   \* the lines main has printed in the as_completed loop
    results,     \* results
    printed      \* the lines main has printed from line 137 on

vars == <<pc, mode, in_file, out_file, lineno, sents, cur, err, wi, wj,
          status, sent, idx, feats, reads, pos_file, gold_file, pred_file,
          pos_sents, gold_sents, pred_sents, violations, zi, sent_idx, tok_i,
          prev_pred, report, word, shape, cpos, key, resp, dev_pos, line_i,
          correct, incorrect, conf, top_tok, top_ctx, boundary, conj_punct,
          stderr, out_dir, stage, futures, completed, results, printed>>

bio_vars == <<pos_file, gold_file, pred_file, pos_sents, gold_sents,
              pred_sents, violations, zi, sent_idx, tok_i, prev_pred, report>>

build_vars == <<pc, mode, in_file, out_file, lineno, sents, cur, err, wi, wj,
                status>>

feat_vars == <<sent, idx, feats, reads>>

lex_vars == <<word, shape, cpos>>

\* the variables of the programs modelled after analyze_bio_violations.py
ea_vars == <<key, resp, dev_pos, line_i, correct, incorrect, conf, top_tok,
             top_ctx, boundary, conj_punct, stderr, out_dir>>

bt_vars == <<stage, futures, completed, results, printed>>

ext_vars == <<lex_vars, ea_vars, bt_vars>>

\* word_shape and coarse_pos are not called on their own
IdleLex ==
    /\ word = <<>>
    /\ shape = None
    /\ cpos = None

\* nothing has been written into out_dir
NoOutput == [written |-> FALSE]

\* error_analysis.py is not running
IdleErr ==
    /\ key = <<>>
    /\ resp = <<>>
    /\ dev_pos = None
    /\ line_i = 0
    /\ correct = 0
    /\ incorrect = 0
    /\ conf = <<>>
    /\ top_tok = <<>>
    /\ top_ctx = <<>>
    /\ boundary = <<>>
    /\ conj_punct = <<>>
    /\ stderr = <<>>
    /\ out_dir = NoOutput

\* batch_test.py is not running
IdleBatch ==
    /\ stage = <<>>
    /\ futures = <<>>
    /\ completed = <<>>
    /\ results = <<>>
    /\ printed = <<>>

IdleExt == IdleLex /\ IdleErr /\ IdleBatch

\* ------------------------------------------------------------------------
\* build_features.py: read_wsj, write_features, main
\* ------------------------------------------------------------------------

\* OUTPUT_PATH names no file
NoFile == <<"<no file>">>

\* the line "" (what a line holding only "\n" is after rstrip)
BlankLine == << <<>> >>

w_the == <<"t","h","e">>
w_Ford == <<"F","o","r","d">>
w_cars == <<"c","a","r","s">>
w_IBM == <<"I","B","M">>
w_red == <<"r","e","d">>

\* The lines input files are made of: blank, one to four fields, an empty
\* word
InputLines ==
    { BlankLine,
      <<w_the>>,
      <<w_and, T_CC>>,
      << <<>>, <<>> >>,
      <<w_Ford, T_NNP, B_NP>>,
      <<w_cars, T_NNS, I_NP, <<"x">> >> }

RECURSIVE SeqsUpTo(_, _)
\* the sequences over S of length at most n
SeqsUpTo(S, n) ==
    IF n = 0 THEN {<<>>}
    ELSE LET shorter == SeqsUpTo(S, n - 1)
         IN  shorter \cup {Append(q, x) : q \in {r \in shorter : Len(r) = n - 1}, x \in S}

InputFiles == SeqsUpTo(InputLines, MaxLines)

Modes == {"train", "dev", "test", "eval"}

\* main: the mode selects has_bio and is_training
has_bio == mode = "train"

is_training == mode = "train"

\* a reader that tests len(parts) <= 3 in labelled mode
min_fields_off_by_one(labelled) == IF labelled THEN 4 ELSE 2

\* the number of fields read_wsj requires of a non-blank line
min_fields(labelled) == IF labelled THEN 3 ELSE 2

\* a reader that takes a blank line for a separator only: a blank line
\* after no token adds no sentence
after_blank_separator(ss, c) ==
    IF c # <<>> THEN Append(Append(ss, c), <<>>) ELSE ss

\* read_wsj, lines 19-22: sents after a blank line
after_blank(ss, c) ==
    Append(IF c # <<>> THEN Append(ss, c) ELSE ss, <<>>)

\* a writer that skips the empty sentences
written_for_blank_skipped(out) == out

\* write_features, line 309: the file after the "\n" of an empty sentence
written_for_blank(out) == Append(out, BlankLine)

\* the token read_wsj appends for a line of enough fields
wsj_token(parts, labelled) ==
    IF labelled THEN <<parts[1], parts[2], parts[3]>>
    ELSE <<parts[1], parts[2], None>>

\* a writer with the test of is_training inverted
feature_line_inverted(s, i, training) ==
    LET tok == subscript(s, i)
        fields == <<tok[1]>> \o token_feats(s, i, TRUE)
    IN  IF training THEN fields ELSE Append(fields, tok[3])

\* the line write_features writes for token i of a non-empty sentence
feature_line(s, i, training) ==
    LET tok == subscript(s, i)
        fields == <<tok[1]>> \o token_feats(s, i, TRUE)
    IN  IF training THEN Append(fields, tok[3]) ELSE fields

InitBuild ==
    /\ pc = "main"
    /\ mode \in Modes
    /\ in_file \in InputFiles
    /\ out_file = NoFile
    /\ lineno = 0
    /\ sents = <<>>
    /\ cur = <<>>
    /\ err = None
    /\ wi = 0
    /\ wj = 0
    /\ status = ""

\* token_feats is not called on its own
IdleFeats ==
    /\ sent = <<>>
    /\ idx = 0
    /\ feats = <<>>
    /\ reads = {}

\* a main that opens OUTPUT_PATH for writing before it reads the corpus
MainRead_opens_output ==
    /\ pc = "main"
    /\ mode \in {"train", "dev", "test"}
    /\ out_file' = <<>>
    /\ pc' = "read"
    /\ UNCHANGED <<mode, in_file, lineno, sents, cur, err, wi, wj, status>>

\* main, lines 324-335: the mode is train, dev or test
MainRead ==
    /\ pc = "main"
    /\ mode \in {"train", "dev", "test"}
    /\ pc' = "read"
    /\ UNCHANGED <<mode, in_file, out_file, lineno, sents, cur, err, wi, wj, status>>

\* main, line 335: sys.exit("Mode must be train/dev/test")
MainBadMode ==
    /\ pc = "main"
    /\ mode \notin {"train", "dev", "test"}
    /\ pc' = "exit"
    /\ UNCHANGED <<mode, in_file, out_file, lineno, sents, cur, err, wi, wj, status>>

\* read_wsj, lines 18-23: a blank line
ReadBlank ==
    /\ pc = "read"
    /\ lineno < Len(in_file)
    /\ in_file[lineno + 1] = BlankLine
    /\ sents' = after_blank(sents, cur)
    /\ cur' = <<>>
    /\ lineno' = lineno + 1
    /\ UNCHANGED <<pc, mode, in_file, out_file, err, wi, wj, status>>

\* read_wsj, lines 24-34: a token line of enough fields
ReadToken ==
    /\ pc = "read"
    /\ lineno < Len(in_file)
    /\ LET parts == in_file[lineno + 1]
       IN  /\ parts # BlankLine
           /\ Len(parts) >= min_fields(has_bio)
           /\ cur' = Append(cur, wsj_token(parts, has_bio))
    /\ lineno' = lineno + 1
    /\ UNCHANGED <<pc, mode, in_file, out_file, sents, err, wi, wj, status>>

\* read_wsj, lines 26-27 and 31-32: too few fields, ValueError ends the run
ReadMalformed ==
    /\ pc = "read"
    /\ lineno < Len(in_file)
    /\ LET parts == in_file[lineno + 1]
       IN  /\ parts # BlankLine
           /\ Len(parts) < min_fields(has_bio)
           /\ err' = parts
    /\ pc' = "error"
    /\ UNCHANGED <<mode, in_file, out_file, lineno, sents, cur, wi, wj, status>>

\* read_wsj, lines 35-37: the end of the file; main holds the corpus
ReadReturn ==
    /\ pc = "read"
    /\ lineno = Len(in_file)
    /\ sents' = IF cur # <<>> THEN Append(sents, cur) ELSE sents
    /\ cur' = <<>>
    /\ pc' = "open"
    /\ UNCHANGED <<mode, in_file, out_file, lineno, err, wi, wj, status>>

\* write_features, line 306: open(..., "w") creates or truncates the file
WriteOpen ==
    /\ pc = "open"
    /\ out_file' = <<>>
    /\ wi' = 0
    /\ wj' = 0
    /\ pc' = "write"
    /\ UNCHANGED <<mode, in_file, lineno, sents, cur, err, status>>

\* write_features, lines 308-310: an empty sentence
WriteBlank ==
    /\ pc = "write"
    /\ wi < Len(sents)
    /\ subscript(sents, wi) = <<>>
    /\ out_file' = written_for_blank(out_file)
    /\ wi' = wi + 1
    /\ UNCHANGED <<pc, mode, in_file, lineno, sents, cur, err, wj, status>>

\* write_features, lines 311-316: one token of a non-empty sentence
WriteToken ==
    /\ pc = "write"
    /\ wi < Len(sents)
    /\ LET s == subscript(sents, wi)
       IN  /\ s # <<>>
           /\ out_file' = Append(out_file, feature_line(s, wj, is_training))
           /\ IF wj + 1 < Len(s)
              THEN wj' = wj + 1 /\ wi' = wi
              ELSE wj' = 0 /\ wi' = wi + 1
    /\ UNCHANGED <<pc, mode, in_file, lineno, sents, cur, err, status>>

\* write_features returns: the file is closed
WriteReturn ==
    /\ pc = "write"
    /\ wi = Len(sents)
    /\ pc' = "sanity"
    /\ UNCHANGED <<mode, in_file, out_file, lineno, sents, cur, err, wi, wj, status>>

after_sanity_fatal(in_lines, out_lines) ==
    IF in_lines # out_lines THEN "exit" ELSE "done"

\* main, lines 341-343: where main is after the sanity check has printed
after_sanity(in_lines, out_lines) == "done"

\* main, lines 337-343: the line counts of the two files
Sanity ==
    /\ pc = "sanity"
    /\ status' = IF Len(in_file) # Len(out_file) THEN "WARN" ELSE "OK"
    /\ pc' = after_sanity(Len(in_file), Len(out_file))
    /\ UNCHANGED <<mode, in_file, out_file, lineno, sents, cur, err, wi, wj>>

\* nothing has been reported
NoReport == [printed |-> FALSE]

\* analyze_bio_violations.py is not running
IdleBio ==
    /\ pos_file = <<>>
    /\ gold_file = <<>>
    /\ pred_file = <<>>
    /\ pos_sents = <<>>
    /\ gold_sents = <<>>
    /\ pred_sents = <<>>
    /\ violations = <<>>
    /\ zi = 0
    /\ sent_idx = 0
    /\ tok_i = 0
    /\ prev_pred = None
    /\ report = NoReport

Init == InitBuild /\ IdleFeats /\ IdleBio /\ IdleExt

Next ==
    \/ (MainRead /\ UNCHANGED <<feat_vars, bio_vars, ext_vars>>)
    \/ (MainBadMode /\ UNCHANGED <<feat_vars, bio_vars, ext_vars>>)
    \/ (ReadBlank /\ UNCHANGED <<feat_vars, bio_vars, ext_vars>>)
    \/ (ReadToken /\ UNCHANGED <<feat_vars, bio_vars, ext_vars>>)
    \/ (ReadMalformed /\ UNCHANGED <<feat_vars, bio_vars, ext_vars>>)
    \/ (ReadReturn /\ UNCHANGED <<feat_vars, bio_vars, ext_vars>>)
    \/ (WriteOpen /\ UNCHANGED <<feat_vars, bio_vars, ext_vars>>)
    \/ (WriteBlank /\ UNCHANGED <<feat_vars, bio_vars, ext_vars>>)
    \/ (WriteToken /\ UNCHANGED <<feat_vars, bio_vars, ext_vars>>)
    \/ (WriteReturn /\ UNCHANGED <<feat_vars, bio_vars, ext_vars>>)
    \/ (Sanity /\ UNCHANGED <<feat_vars, bio_vars, ext_vars>>)

Spec == Init /\ [][Next]_vars

\* INPUT_PATH is a file other processes can write: between the return of
\* write_features and the count of line 338 a line is appended to it, or
\* its last line is cut
InputRewritten ==
    /\ pc = "sanity"
    /\ Len(in_file) = Len(out_file)
    /\ in_file' \in {Append(in_file, BlankLine)}
                    \cup (IF in_file = <<>> THEN {}
                          ELSE {SubSeq(in_file, 1, Len(in_file) - 1)})
    /\ UNCHANGED <<pc, mode, out_file, lineno, sents, cur, err, wi, wj, status>>

NextShared ==
    \/ Next
    \/ (InputRewritten /\ UNCHANGED <<feat_vars, bio_vars, ext_vars>>)

\* build_features.py main on an input file that is rewritten while it runs
SpecShared == Init /\ [][NextShared]_vars

\* what an earlier run left at OUTPUT_PATH: two empty lines
OldOutput == <<BlankLine, BlankLine>>

\* main, line 326: OUTPUT_PATH names no file yet, or the file of an earlier
\* run; dev and test take the same branch of main (line 331)
InitExisting ==
    /\ pc = "main"
    /\ mode \in Modes \ {"test"}
    /\ in_file \in InputFiles
    /\ out_file \in {NoFile, OldOutput}
    /\ lineno = 0
    /\ sents = <<>>
    /\ cur = <<>>
    /\ err = None
    /\ wi = 0
    /\ wj = 0
    /\ status = ""
    /\ IdleFeats /\ IdleBio /\ IdleExt

\* build_features.py main when OUTPUT_PATH may already exist
SpecExisting == InitExisting /\ [][Next]_vars

\* ------------------------------------------------------------------------
\* token_feats called on the sentences of a small lexicon
\* ------------------------------------------------------------------------

\* (word, POS) pairs: a conjunction, a comma, a proper noun in capitals, a
\* determiner
FeatTokens ==
    { <<w_and, T_CC>>, <<Comma, Comma>>, <<w_IBM, T_NNP>>, <<w_the, T_DT>> }

\* The third field of every token: None (read without labels) or one label
LabelChoices == {None, I_NP, O_tag}

\* sentence ws with the third field of every token set to bio
with_labels(ws, bio) == [k \in 1..Len(ws) |-> <<ws[k][1], ws[k][2], bio>>]

\* build_features.py main is not running
IdleBuild ==
    /\ mode = ""
    /\ in_file = <<>>
    /\ out_file = NoFile
    /\ lineno = 0
    /\ sents = <<>>
    /\ cur = <<>>
    /\ err = None
    /\ wi = 0
    /\ wj = 0
    /\ status = ""

InitFeats ==
    /\ IdleBuild
    /\ IdleBio
    /\ IdleExt
    /\ pc = "call"
    /\ \E ws \in SeqsUpTo(FeatTokens, MaxSentLen) \ {<<>>} :
          \E bio \in LabelChoices : sent = with_labels(ws, bio)
    /\ idx = 0
    /\ feats = <<>>
    /\ reads = {}

\* feats = token_feats(sent, i, include_prev_bio=True), as write_features
\* calls it, for an index i of the sentence
Extract ==
    /\ pc = "call"
    /\ \E i \in 0..(Len(sent) - 1) :
          /\ idx' = i
          /\ feats' = token_feats(sent, i, TRUE)
          /\ reads' = token_reads(sent, i)
    /\ pc' = "returned"
    /\ UNCHANGED <<mode, in_file, out_file, lineno, sents, cur, err, wi, wj,
                   status, sent, bio_vars, ext_vars>>

NextFeats == Extract

SpecFeats == InitFeats /\ [][NextFeats]_vars

\* ------------------------------------------------------------------------
\* token_feats called on the sentences of a lexicon of coordinations
\* ------------------------------------------------------------------------

MaxCoordLen == 4

\* (word, POS) pairs: a conjunction, a proper noun, an adjective, a plural
\* noun, a determiner
CoordTokens ==
    { <<w_and, T_CC>>, <<w_IBM, T_NNP>>, <<w_red, T_JJ>>, <<w_cars, T_NNS>>,
      <<w_the, T_DT>> }

InitCoord ==
    /\ IdleBuild
    /\ IdleBio
    /\ IdleExt
    /\ pc = "call"
    /\ \E ws \in SeqsUpTo(CoordTokens, MaxCoordLen) \ {<<>>} :
          sent = with_labels(ws, None)
    /\ idx = 0
    /\ feats = <<>>
    /\ reads = {}

SpecCoord == InitCoord /\ [][NextFeats]_vars

\* The longest sentence of the window check
MaxWindowLen == 7

\* (word, POS) pairs the two longest scans of token_feats look for: a comma
\* (CC_F2, up to five tokens back), a conjunction that starts that scan, and
\* a proper noun (the count of three tokens either side of a comma)
WindowTokens == { <<Comma, Comma>>, <<w_and, T_CC>>, <<w_IBM, T_NNP>> }

\* token_feats is called on a sentence long enough to have tokens more than
\* five positions before or more than three positions after the index
InitWindow ==
    /\ IdleBuild
    /\ IdleBio
    /\ IdleExt
    /\ pc = "call"
    /\ \E ws \in SeqsUpTo(WindowTokens, MaxWindowLen) \ {<<>>} :
          sent = with_labels(ws, None)
    /\ idx = 0
    /\ feats = <<>>
    /\ reads = {}

SpecWindow == InitWindow /\ [][NextFeats]_vars

\* ------------------------------------------------------------------------
\* analyze_bio_violations.py
\* ------------------------------------------------------------------------

\* sentences with current flushed into it when current is not empty
flush(sentences, current) ==
    IF current # <<>> THEN Append(sentences, current) ELSE sentences

RECURSIVE read_pos_from(_, _, _, _)
\* the loop of read_pos_file from line k on
read_pos_from(file, k, sentences, current) ==
    IF k > Len(file) THEN flush(sentences, current)
    ELSE LET parts == file[k]
         IN  IF parts = BlankLine
             THEN read_pos_from(file, k + 1,
                                Append(flush(sentences, current), <<>>), <<>>)
             ELSE IF Len(parts) >= 2
             THEN read_pos_from(file, k + 1, sentences,
                                Append(current, <<parts[1], parts[2]>>))
             ELSE read_pos_from(file, k + 1, sentences, current)

read_pos_file(file) == read_pos_from(file, 1, <<>>, <<>>)

RECURSIVE read_bio_from(_, _, _, _)
\* the loop of read_bio_file from line k on: the tag is the last field
read_bio_from(file, k, sentences, current) ==
    IF k > Len(file) THEN flush(sentences, current)
    ELSE LET parts == file[k]
         IN  IF parts = BlankLine
             THEN read_bio_from(file, k + 1,
                                Append(flush(sentences, current), <<>>), <<>>)
             ELSE IF Len(parts) >= 2
             THEN read_bio_from(file, k + 1, sentences,
                                Append(current, parts[Len(parts)]))
             ELSE read_bio_from(file, k + 1, sentences, current)

read_bio_file(file) == read_bio_from(file, 1, <<>>, <<>>)

\* the start-of-sentence marker of the scan
START_MARK == <<"@","@">>

\* the number of violations shown with their context
SHOWN == 30

\* the length of zip(a, b, c)
zip_len(a, b, c) == min2(Len(a), min2(Len(b), Len(c)))

\* a scan that also flags I-NP at the start of a sentence
is_violation_or_start(prev, pred_bio) ==
    prev \in {O_tag, START_MARK} /\ pred_bio = I_NP

\* the test of the scan: prev_pred == 'O' and pred_bio == 'I-NP'
is_violation(prev, pred_bio) == prev = O_tag /\ pred_bio = I_NP

\* a scan that applies repair option 1 to what it records
violation_repaired(sidx, i, pos_sent, gold_sent, pred_sent) ==
    [ sent_idx |-> sidx,
      token_idx |-> i,
      word |-> subscript(pos_sent, i)[1],
      pos |-> subscript(pos_sent, i)[2],
      gold |-> subscript(gold_sent, i),
      pred |-> B_NP,
      sentence |-> pos_sent,
      gold_tags |-> gold_sent,
      pred_tags |-> [pred_sent EXCEPT ![i + 1] = B_NP] ]

\* the record appended for token i of the sentence at the zip position
violation(sidx, i, pos_sent, gold_sent, pred_sent) ==
    [ sent_idx |-> sidx,
      token_idx |-> i,
      word |-> subscript(pos_sent, i)[1],
      pos |-> subscript(pos_sent, i)[2],
      gold |-> subscript(gold_sent, i),
      pred |-> subscript(pred_sent, i),
      sentence |-> pos_sent,
      gold_tags |-> gold_sent,
      pred_tags |-> pred_sent ]

\* Counter(xs): the number of occurrences of each element
Counter(xs) ==
    [x \in {xs[k] : k \in 1..Len(xs)} |->
        Cardinality({k \in 1..Len(xs) : xs[k] = x})]

\* the tags counted by next_pred_counter
next_preds(vs) ==
    LET has_next(v) == v.token_idx + 1 < Len(v.pred_tags)
        RECURSIVE collect(_)
        collect(k) ==
            IF k > Len(vs) THEN <<>>
            ELSE (IF has_next(vs[k])
                  THEN <<subscript(vs[k].pred_tags, vs[k].token_idx + 1)>>
                  ELSE <<>>) \o collect(k + 1)
    IN  collect(1)

\* the context display of a record subscripts gold_tags and pred_tags at
\* range(max(0, tok_idx-3), min(len(sent), tok_idx+4)): within both lists
display_ok(v) ==
    LET stop == min2(Len(v.sentence), v.token_idx + 4)
    IN  stop <= Len(v.gold_tags) /\ stop <= Len(v.pred_tags)

\* The rows the three files are made of, line by line: a blank line in all
\* three; a token with its gold and predicted tag; a token whose line in
\* response.chunk has a single field (read_bio_file skips it)
TagRows ==
    {[kind |-> "blank", gold |-> None, pred |-> None]}
    \cup [kind : {"token"}, gold : {B_NP, O_tag}, pred : {B_NP, I_NP, O_tag}]
    \cup {[kind |-> "short", gold |-> I_NP, pred |-> None]}

\* the word and POS of a row, by its gold tag
row_word(r) == IF r.gold = O_tag THEN <<w_and, T_CC>>
               ELSE IF r.gold = B_NP THEN <<w_the, T_DT>>
               ELSE <<w_cars, T_NNS>>

pos_line(r) == IF r.kind = "blank" THEN BlankLine ELSE row_word(r)

gold_line(r) == IF r.kind = "blank" THEN BlankLine
                ELSE Append(row_word(r), r.gold)

pred_line(r) == IF r.kind = "blank" THEN BlankLine
                ELSE IF r.kind = "short" THEN <<row_word(r)[1]>>
                ELSE <<row_word(r)[1], r.pred>>

InitBio ==
    /\ IdleBuild
    /\ IdleFeats
    /\ IdleExt
    /\ pc = "bio_main"
    /\ \E rows \in SeqsUpTo(TagRows, MaxTagLines) :
          /\ pos_file = [k \in 1..Len(rows) |-> pos_line(rows[k])]
          /\ gold_file = [k \in 1..Len(rows) |-> gold_line(rows[k])]
          /\ pred_file = [k \in 1..Len(rows) |-> pred_line(rows[k])]
    /\ pos_sents = <<>>
    /\ gold_sents = <<>>
    /\ pred_sents = <<>>
    /\ violations = <<>>
    /\ zi = 0
    /\ sent_idx = 0
    /\ tok_i = 0
    /\ prev_pred = None
    /\ report = NoReport

\* main, lines 61-69: the three files are read
BioRead ==
    /\ pc = "bio_main"
    /\ pos_sents' = read_pos_file(pos_file)
    /\ gold_sents' = read_bio_file(gold_file)
    /\ pred_sents' = read_bio_file(pred_file)
    /\ violations' = <<>>
    /\ sent_idx' = 0
    /\ zi' = 0
    /\ pc' = "scan"
    /\ UNCHANGED <<pos_file, gold_file, pred_file, tok_i, prev_pred, report>>

\* main, lines 70-73: the next sentence is a blank line
ScanBlank ==
    /\ pc = "scan"
    /\ zi < zip_len(pos_sents, gold_sents, pred_sents)
    /\ subscript(pos_sents, zi) = <<>>
    /\ sent_idx' = sent_idx + 1
    /\ zi' = zi + 1
    /\ UNCHANGED <<pc, pos_file, gold_file, pred_file, pos_sents, gold_sents,
                   pred_sents, violations, tok_i, prev_pred, report>>

\* a scan that sets prev_pred once, before the loop over the sentences, and
\* carries it from one sentence into the next
ScanEnter_carries_prev ==
    /\ pc = "scan"
    /\ zi < zip_len(pos_sents, gold_sents, pred_sents)
    /\ subscript(pos_sents, zi) # <<>>
    /\ prev_pred' = IF prev_pred = None THEN START_MARK ELSE prev_pred
    /\ tok_i' = 0
    /\ pc' = "tokens"
    /\ UNCHANGED <<pos_file, gold_file, pred_file, pos_sents, gold_sents,
                   pred_sents, violations, zi, sent_idx, report>>

\* main, lines 70-76: a sentence is entered, prev_pred is the start marker
ScanEnter ==
    /\ pc = "scan"
    /\ zi < zip_len(pos_sents, gold_sents, pred_sents)
    /\ subscript(pos_sents, zi) # <<>>
    /\ prev_pred' = START_MARK
    /\ tok_i' = 0
    /\ pc' = "tokens"
    /\ UNCHANGED <<pos_file, gold_file, pred_file, pos_sents, gold_sents,
                   pred_sents, violations, zi, sent_idx, report>>

\* main, lines 76-90: one token of the sentence
ScanToken ==
    /\ pc = "tokens"
    /\ LET pos_sent == subscript(pos_sents, zi)
           gold_sent == subscript(gold_sents, zi)
           pred_sent == subscript(pred_sents, zi)
           pred_bio == subscript(pred_sent, tok_i)
       IN  /\ tok_i < zip_len(pos_sent, gold_sent, pred_sent)
           /\ violations' =
                 IF is_violation(prev_pred, pred_bio)
                 THEN Append(violations,
                             violation(sent_idx, tok_i, pos_sent, gold_sent, pred_sent))
                 ELSE violations
           /\ prev_pred' = pred_bio
    /\ tok_i' = tok_i + 1
    /\ UNCHANGED <<pc, pos_file, gold_file, pred_file, pos_sents, gold_sents,
                   pred_sents, zi, sent_idx, report>>

\* main, line 92: the sentence is left
ScanLeave ==
    /\ pc = "tokens"
    /\ tok_i = zip_len(subscript(pos_sents, zi), subscript(gold_sents, zi),
                       subscript(pred_sents, zi))
    /\ sent_idx' = sent_idx + 1
    /\ zi' = zi + 1
    /\ pc' = "scan"
    /\ UNCHANGED <<pos_file, gold_file, pred_file, pos_sents, gold_sents,
                   pred_sents, violations, tok_i, prev_pred, report>>

\* the violations shown with their context: violations[:30]
shown_violations == slice_to(violations, SHOWN)

\* main, lines 94-167: the listing, the counters and the recommendation
Report ==
    /\ pc = "scan"
    /\ zi = zip_len(pos_sents, gold_sents, pred_sents)
    /\ \A k \in 1..Len(shown_violations) : display_ok(shown_violations[k])
    /\ report' =
          [ printed |-> TRUE,
            found |-> Len(violations),
            pos_counter |-> Counter([k \in 1..Len(violations) |-> violations[k].pos]),
            gold_counter |-> Counter([k \in 1..Len(violations) |-> violations[k].gold]),
            next_pred_counter |-> Counter(next_preds(violations)) ]
    /\ pc' = "bio_done"
    /\ UNCHANGED <<pos_file, gold_file, pred_file, pos_sents, gold_sents,
                   pred_sents, violations, zi, sent_idx, tok_i, prev_pred>>

\* main, lines 114-117: the context display of a record subscripts a tag
\* list past its end (the tag lists of the sentence are shorter than the
\* sentence), IndexError ends the run
ReportIndexError ==
    /\ pc = "scan"
    /\ zi = zip_len(pos_sents, gold_sents, pred_sents)
    /\ \E k \in 1..Len(shown_violations) : ~display_ok(shown_violations[k])
    /\ pc' = "bio_error"
    /\ UNCHANGED <<pos_file, gold_file, pred_file, pos_sents, gold_sents,
                   pred_sents, violations, zi, sent_idx, tok_i, prev_pred, report>>

NextBio ==
    \/ (BioRead /\ UNCHANGED <<mode, in_file, out_file, lineno, sents, cur,
                               err, wi, wj, status, feat_vars, ext_vars>>)
    \/ (ScanBlank /\ UNCHANGED <<mode, in_file, out_file, lineno, sents, cur,
                                 err, wi, wj, status, feat_vars, ext_vars>>)
    \/ (ScanEnter /\ UNCHANGED <<mode, in_file, out_file, lineno, sents, cur,
                                 err, wi, wj, status, feat_vars, ext_vars>>)
    \/ (ScanToken /\ UNCHANGED <<mode, in_file, out_file, lineno, sents, cur,
                                 err, wi, wj, status, feat_vars, ext_vars>>)
    \/ (ScanLeave /\ UNCHANGED <<mode, in_file, out_file, lineno, sents, cur,
                                 err, wi, wj, status, feat_vars, ext_vars>>)
    \/ (Report /\ UNCHANGED <<mode, in_file, out_file, lineno, sents, cur,
                              err, wi, wj, status, feat_vars, ext_vars>>)
    \/ (ReportIndexError /\ UNCHANGED <<mode, in_file, out_file, lineno, sents,
                                        cur, err, wi, wj, status, feat_vars, ext_vars>>)

SpecBio == InitBio /\ [][NextBio]_vars

\* ------------------------------------------------------------------------
\* error_analysis.py: parse_bio, main
\* ------------------------------------------------------------------------

MaxErrLines == 3

\* parse_bio, lines 29-31: tag.strip().split('-')[0]
parse_bio(tag) ==
    LET Whitespace == {" ", "\r"}
        RECURSIVE lstrip(_)
        lstrip(s) ==
            IF s # <<>> /\ Head(s) \in Whitespace THEN lstrip(Tail(s)) ELSE s
        RECURSIVE rstrip(_)
        rstrip(s) ==
            IF s # <<>> /\ s[Len(s)] \in Whitespace
            THEN rstrip(SubSeq(s, 1, Len(s) - 1))
            ELSE s
        stripped == rstrip(lstrip(tag))
        hy == {k \in 1..Len(stripped) : stripped[k] = "-"}
    IN  IF hy = {} THEN stripped
        ELSE SubSeq(stripped, 1,
                    (CHOOSE k \in hy : \A k2 \in hy : k <= k2) - 1)

NA == <<"N","A">>
BOS_POS == <<"B","O","S">>
EOS_POS == <<"E","O","S">>

\* get_pos, lines 67-70, of a line of DEV.pos; pos_lines is dev_pos
get_pos(pos_lines, line) ==
    IF pos_lines = None \/ pos_lines = <<>> THEN NA
    ELSE IF Len(line) >= 2 THEN line[2]
    ELSE NA

\* get_pos(dev_pos[j]) if dev_pos else 'NA', lines 95, 99 and 101
pos_at(pos_lines, j) ==
    IF pos_lines = None \/ pos_lines = <<>> THEN NA
    ELSE get_pos(pos_lines, pos_lines[j + 1])

\* (r.split('\t') + [''])[:2], line 81
resp_fields(r) == SubSeq(r \o << <<>> >>, 1, 2)

BOUNDARY_PAIRS ==
    { << <<"B">>, <<"O">> >>, << <<"O">>, <<"B">> >>,
      << <<"I">>, <<"O">> >>, << <<"O">>, <<"I">> >> }

\* counter.most_common(): the distinct keys with their counts, the larger
\* count first and keys of equal count in the order they were first counted
most_common(xs) ==
    LET firsts == {k \in 1..Len(xs) : \A j \in 1..(k - 1) : xs[j] # xs[k]}
        cnt(k) == Cardinality({j \in 1..Len(xs) : xs[j] = xs[k]})
        before(j, k) == cnt(j) > cnt(k) \/ (cnt(j) = cnt(k) /\ j < k)
        rank(k) == 1 + Cardinality({j \in firsts : before(j, k)})
    IN  [r \in 1..Cardinality(firsts) |->
            LET k == CHOOSE k \in firsts : rank(k) = r
            IN  <<xs[k], cnt(k)>>]

\* the five files of lines 113-136; acc is f"{acc:.2f}" in hundredths of a
\* percent (a tie between two hundredths needs a total of 32 or more)
outputs(c, inc, cf, tt, tc, bd, cp) ==
    [written |-> TRUE,
     summary |-> [correct |-> c, total |-> c + inc,
                  acc |-> IF c + inc = 0 THEN 0
                          ELSE (20000 * c + c + inc) \div (2 * (c + inc)),
                  confusions |-> most_common(cf)],
     top_error_tokens |-> most_common(tt),
     top_contexts |-> most_common(tc),
     boundary_errors |-> most_common(bd),
     conj_punct_errors |-> most_common(cp)]

w_a == <<"a">>

\* line k of the key, of the response and of DEV.pos: a sentence break; a
\* right tag; I for B; B for O on a conjunction; another token; a token
\* where the key has a sentence break; an empty line where the key has a
\* token; a key line of three fields; a response line without a tag
ErrRows ==
    { [k |-> BlankLine, r |-> BlankLine, p |-> BlankLine],
      [k |-> <<w_the, B_NP>>, r |-> <<w_the, B_NP>>, p |-> <<w_the, T_DT>>],
      [k |-> <<w_the, B_NP>>, r |-> <<w_the, I_NP>>, p |-> <<w_the>>],
      [k |-> <<w_and, O_tag>>, r |-> <<w_and, B_NP>>, p |-> <<w_and, T_CC>>],
      [k |-> <<w_the, B_NP>>, r |-> <<w_a, B_NP>>, p |-> <<w_the, T_DT>>],
      [k |-> BlankLine, r |-> <<w_the, B_NP>>, p |-> BlankLine],
      [k |-> <<w_the, B_NP>>, r |-> BlankLine, p |-> <<w_the, T_DT>>],
      [k |-> <<w_the, T_DT, B_NP>>, r |-> <<w_the, B_NP>>,
       p |-> <<w_the, T_DT>>],
      [k |-> <<w_and, O_tag>>, r |-> <<w_and>>, p |-> <<w_and, T_CC>>] }

\* the response has the lines of the key, or one more; DEV.pos is not
\* given, has the lines of the key, or one more
InitErr ==
    /\ IdleBuild
    /\ IdleFeats
    /\ IdleBio
    /\ IdleLex
    /\ IdleBatch
    /\ pc = "ea_main"
    /\ \E rows \in SeqsUpTo(ErrRows, MaxErrLines) :
          /\ key = [n \in 1..Len(rows) |-> rows[n].k]
          /\ \E extra \in {<<>>, <<BlankLine>>} :
                resp = [n \in 1..Len(rows) |-> rows[n].r] \o extra
          /\ \E given \in {"no", "aligned", "longer"} :
                dev_pos = CASE given = "no" -> None
                            [] given = "aligned" ->
                                  [n \in 1..Len(rows) |-> rows[n].p]
                            [] given = "longer" ->
                                  [n \in 1..Len(rows) |-> rows[n].p]
                                      \o <<BlankLine>>
    /\ line_i = 0
    /\ correct = 0
    /\ incorrect = 0
    /\ conf = <<>>
    /\ top_tok = <<>>
    /\ top_ctx = <<>>
    /\ boundary = <<>>
    /\ conj_punct = <<>>
    /\ stderr = <<>>
    /\ out_dir = NoOutput

\* main, lines 47-49: sys.exit(2)
LengthMismatch ==
    /\ pc = "ea_main"
    /\ Len(key) # Len(resp)
    /\ stderr' = Append(stderr,
                    [msg |-> "length mismatch between key and response"])
    /\ pc' = "ea_exit2"
    /\ UNCHANGED <<key, resp, dev_pos, line_i, correct, incorrect, conf,
                   top_tok, top_ctx, boundary, conj_punct, out_dir>>

\* main, lines 51-64: DEV.pos is dropped when its length is not the key's
ReadDevPos ==
    /\ pc = "ea_main"
    /\ Len(key) = Len(resp)
    /\ IF dev_pos # None /\ Len(dev_pos) # Len(key)
       THEN /\ stderr' = Append(stderr,
                    [msg |-> "length mismatch between key and DEV.pos"])
            /\ dev_pos' = None
       ELSE UNCHANGED <<stderr, dev_pos>>
    /\ pc' = "ea_loop"
    /\ UNCHANGED <<key, resp, line_i, correct, incorrect, conf, top_tok,
                   top_ctx, boundary, conj_punct, out_dir>>

\* key[i] and resp[i] of the iteration the loop is at
cur_k == key[line_i + 1]
cur_r == resp[line_i + 1]

InLoop == pc = "ea_loop" /\ line_i < Len(key)

\* lines 75-79: a sentence break in both files
BlankPair ==
    /\ InLoop
    /\ cur_k = BlankLine
    /\ cur_r = BlankLine
    /\ line_i' = line_i + 1
    /\ UNCHANGED <<pc, key, resp, dev_pos, correct, incorrect, conf, top_tok,
                   top_ctx, boundary, conj_punct, stderr, out_dir>>

\* lines 75-78: sys.exit(3)
SentenceBreakExpected ==
    /\ InLoop
    /\ cur_k = BlankLine
    /\ cur_r # BlankLine
    /\ stderr' = Append(stderr,
                    [msg |-> "sentence break expected at line",
                     line |-> line_i])
    /\ pc' = "ea_exit3"
    /\ UNCHANGED <<key, resp, dev_pos, line_i, correct, incorrect, conf,
                   top_tok, top_ctx, boundary, conj_punct, out_dir>>

\* line 80: the key line does not unpack into two fields (ValueError)
UnpackError ==
    /\ InLoop
    /\ cur_k # BlankLine
    /\ Len(cur_k) # 2
    /\ pc' = "ea_error"
    /\ UNCHANGED <<key, resp, dev_pos, line_i, correct, incorrect, conf,
                   top_tok, top_ctx, boundary, conj_punct, stderr, out_dir>>

\* lines 84-86: the tokens differ; print and continue
TokenMismatch ==
    /\ InLoop
    /\ cur_k # BlankLine
    /\ Len(cur_k) = 2
    /\ cur_k[1] # resp_fields(cur_r)[1]
    /\ stderr' = Append(stderr,
                    [msg |-> "Token mismatch at line", line |-> line_i,
                     key |-> cur_k[1], resp |-> resp_fields(cur_r)[1]])
    /\ line_i' = line_i + 1
    /\ UNCHANGED <<pc, key, resp, dev_pos, correct, incorrect, conf, top_tok,
                   top_ctx, boundary, conj_punct, out_dir>>

\* lines 88-89: the tags agree
TagCorrect ==
    /\ InLoop
    /\ cur_k # BlankLine
    /\ Len(cur_k) = 2
    /\ cur_k[1] = resp_fields(cur_r)[1]
    /\ parse_bio(cur_k[2]) = parse_bio(resp_fields(cur_r)[2])
    /\ correct' = correct + 1
    /\ line_i' = line_i + 1
    /\ UNCHANGED <<pc, key, resp, dev_pos, incorrect, conf, top_tok, top_ctx,
                   boundary, conj_punct, stderr, out_dir>>

\* lines 90-111: the tags differ
TagIncorrect ==
    /\ InLoop
    /\ cur_k # BlankLine
    /\ Len(cur_k) = 2
    /\ cur_k[1] = resp_fields(cur_r)[1]
    /\ LET k_tok == cur_k[1]
           k_tag == parse_bio(cur_k[2])
           r_tag == parse_bio(resp_fields(cur_r)[2])
           pos_cur == pos_at(dev_pos, line_i)
           pos_prev == IF line_i > 0 /\ key[line_i] # BlankLine
                       THEN pos_at(dev_pos, line_i - 1) ELSE BOS_POS
           pos_next == IF line_i < Len(key) - 1 /\ key[line_i + 2] # BlankLine
                       THEN pos_at(dev_pos, line_i + 1) ELSE EOS_POS
           tok_key == <<str_lower(k_tok), pos_cur, k_tag, r_tag>>
       IN  /\ k_tag # r_tag
           /\ incorrect' = incorrect + 1
           /\ conf' = Append(conf, <<k_tag, r_tag>>)
           /\ top_tok' = Append(top_tok, tok_key)
           /\ top_ctx' = Append(top_ctx, <<pos_prev, k_tok, pos_cur, pos_next,
                                           k_tag, r_tag>>)
           /\ boundary' = IF <<k_tag, r_tag>> \in BOUNDARY_PAIRS
                          THEN Append(boundary, tok_key) ELSE boundary
           /\ conj_punct' =
                 IF str_lower(k_tok) \in {w_and, w_or} \/ k_tok \in {Comma, w_amp}
                 THEN Append(conj_punct, <<k_tok, pos_cur, pos_prev, pos_next,
                                           k_tag, r_tag>>)
                 ELSE conj_punct
    /\ line_i' = line_i + 1
    /\ UNCHANGED <<pc, key, resp, dev_pos, correct, stderr, out_dir>>

\* lines 113-138: the loop is over, the five files are written
WriteOutputs ==
    /\ pc = "ea_loop"
    /\ line_i = Len(key)
    /\ out_dir' = outputs(correct, incorrect, conf, top_tok, top_ctx,
                          boundary, conj_punct)
    /\ pc' = "ea_done"
    /\ UNCHANGED <<key, resp, dev_pos, line_i, correct, incorrect, conf,
                   top_tok, top_ctx, boundary, conj_punct, stderr>>

ea_idle == <<mode, in_file, out_file, lineno, sents, cur, err, wi, wj, status,
             feat_vars, bio_vars, lex_vars, bt_vars>>

NextErr ==
    \/ (LengthMismatch /\ UNCHANGED ea_idle)
    \/ (ReadDevPos /\ UNCHANGED ea_idle)
    \/ (BlankPair /\ UNCHANGED ea_idle)
    \/ (SentenceBreakExpected /\ UNCHANGED ea_idle)
    \/ (UnpackError /\ UNCHANGED ea_idle)
    \/ (TokenMismatch /\ UNCHANGED ea_idle)
    \/ (TagCorrect /\ UNCHANGED ea_idle)
    \/ (TagIncorrect /\ UNCHANGED ea_idle)
    \/ (WriteOutputs /\ UNCHANGED ea_idle)

SpecErr == InitErr /\ [][NextErr]_vars

\* ------------------------------------------------------------------------
\* word_shape and coarse_pos called on the strings of a small alphabet
\* ------------------------------------------------------------------------

MaxWordLen == 3

\* two uppercase letters, a lowercase letter, a digit, the three characters
\* word_shape copies, and two characters of no class
LexChars == {"A", "N", "a", "1", "-", "'", "/", ".", "$"}

w_AAAbbb123 == <<"A","A","A","b","b","b","1","2","3">>
w_coops == <<"c","o","-","o","p","'","s">>

\* the tags token_feats and coarse_pos name
LexTags ==
    { T_NN, T_NNS, T_NNP, T_NNPS, T_JJ, T_JJR, T_JJS, T_RB, T_RBR, T_RBS,
      T_VB, T_VBD, T_VBZ, T_VBP, T_VBN, T_MD, T_DT, T_PDT, T_WDT, T_WP,
      T_WRB, T_PRP, T_PRPS, T_IN, T_CD, T_CC, T_TO, T_POS, T_LRB, T_RRB,
      Comma, Period, Colon, Semicolon, OpenQuotes, CloseQuotes }

LexWords ==
    SeqsUpTo(LexChars, MaxWordLen) \cup LexTags \cup {w_AAAbbb123, w_coops}

InitLex ==
    /\ IdleBuild
    /\ IdleFeats
    /\ IdleBio
    /\ IdleErr
    /\ IdleBatch
    /\ pc = "lex"
    /\ word \in LexWords
    /\ shape = None
    /\ cpos = None

\* token_feats, line 125: shape = word_shape(w)
Shape ==
    /\ pc = "lex"
    /\ shape = None
    /\ shape' = word_shape(word)
    /\ UNCHANGED <<pc, word, cpos>>

\* read_wsj, lines 24-34, reads the line of the two fields "the" and word in
\* unlabelled mode; token_feats, line 118: cpos = coarse_pos(pos)
Coarse ==
    /\ pc = "lex"
    /\ cpos = None
    /\ LET parts == <<w_the, word>>
       IN  /\ parts # BlankLine
           /\ Len(parts) >= min_fields(FALSE)
           /\ cpos' = coarse_pos(wsj_token(parts, FALSE)[2])
    /\ UNCHANGED <<pc, word, shape>>

lex_idle == <<mode, in_file, out_file, lineno, sents, cur, err, wi, wj,
              status, feat_vars, bio_vars, ea_vars, bt_vars>>

NextLex ==
    \/ (Shape /\ UNCHANGED lex_idle)
    \/ (Coarse /\ UNCHANGED lex_idle)

SpecLex == InitLex /\ [][NextLex]_vars

\* ------------------------------------------------------------------------
\* batch_test.py: run_experiment in the worker processes, main
\* ------------------------------------------------------------------------

MaxVariants == 3

\* the keys of EXPERIMENTS, in the order of the dict
EXPERIMENTS ==
    <<"baseline", "no_p1wl_n1wl", "no_p2cpos_n2cpos", "no_BOS2_EOS2",
      "no_p2pos_p1pos", "no_n1pos_n2pos">>

\* the experiments of a run: the first MaxVariants of them
Variants == 1..min2(MaxVariants, Len(EXPERIMENTS))

\* ProcessPoolExecutor(max_workers=min(len(EXPERIMENTS), 4))
max_workers == min2(Cardinality(Variants), 4)

\* the steps of run_experiment that run a command, lines 48-84: the two
\* feature files, MEtrain, MEtag, the score script
STEPS == 5

\* stage: 0 submitted, k in 1..STEPS before step k, STEPS + 1 the future is
\* done, STEPS + 2 as_completed has yielded it
DONE == STEPS + 1
YIELDED == STEPS + 2

\* what the score script can print: every metric; no accuracy line; no F1
\* line
ScoreOutputs ==
    { << [label |-> "accuracy", value |-> "95.6"],
         [label |-> "precision", value |-> "90.8"],
         [label |-> "recall", value |-> "91.9"],
         [label |-> "F1", value |-> "91.4"] >>,
      << [label |-> "precision", value |-> "89.9"],
         [label |-> "recall", value |-> "90.3"],
         [label |-> "F1", value |-> "90.1"] >>,
      << [label |-> "accuracy", value |-> "95.6"],
         [label |-> "precision", value |-> "90.8"],
         [label |-> "recall", value |-> "91.9"] >> }

\* lines 88-97: the value of the last line that carries the label, "?" when
\* there is none
metric(lines, label) ==
    LET at == {k \in 1..Len(lines) : lines[k].label = label}
    IN  IF at = {} THEN "?"
        ELSE lines[CHOOSE k \in at : \A k2 \in at : k2 <= k].value

\* lines 99-106: the dict run_experiment returns
parsed(v, lines) ==
    [name |-> EXPERIMENTS[v],
     accuracy |-> metric(lines, "accuracy"),
     precision |-> metric(lines, "precision"),
     recall |-> metric(lines, "recall"),
     f1 |-> metric(lines, "F1"),
     output |-> lines]

\* lines 108-112: the dict of a pipeline that raised in step k
failed(v, k) == [name |-> EXPERIMENTS[v], error |-> k]

Pending == [pending |-> TRUE]
BrokenProcessPool == [exception |-> "BrokenProcessPool"]

ValueError == -1

\* float(s.split()[0]), in tenths, of the values the score script prints
float(s) ==
    CASE s = "91.4" -> 914
      [] s = "90.1" -> 901
      [] OTHER -> ValueError

\* line 144: the key of the sort
sort_key(x) == IF "error" \in DOMAIN x THEN 0 ELSE float(x.f1)

\* line 144: results.sort(key=..., reverse=True): the larger key first, and
\* the results of equal key in the order they have
sorted_results(rs) ==
    LET before(j, k) ==
            \/ sort_key(rs[j]) > sort_key(rs[k])
            \/ (sort_key(rs[j]) = sort_key(rs[k]) /\ j < k)
        rank(k) == 1 + Cardinality({j \in 1..Len(rs) : before(j, k)})
    IN  [r \in 1..Len(rs) |-> rs[CHOOSE k \in 1..Len(rs) : rank(k) = r]]

\* lines 146-150: the line of the table for result r
row(r) ==
    IF "error" \in DOMAIN r
    THEN [name |-> r.name, error |-> r.error]
    ELSE [name |-> r.name, accuracy |-> r.accuracy,
          precision |-> r.precision, recall |-> r.recall, f1 |-> r.f1]

HEADER == [name |-> "Experiment"]
RULE == [name |-> "="]

InitBatch ==
    /\ IdleBuild
    /\ IdleFeats
    /\ IdleBio
    /\ IdleLex
    /\ IdleErr
    /\ pc = "bt_wait"
    /\ stage = [v \in Variants |-> 0]
    /\ futures = [v \in Variants |-> Pending]
    /\ completed = <<>>
    /\ results = <<>>
    /\ printed = <<>>

Running == {v \in Variants : stage[v] \in 1..STEPS}

\* a worker process takes the next call of the queue
Start(v) ==
    /\ stage[v] = 0
    /\ \A u \in Variants : u < v => stage[u] # 0
    /\ Cardinality(Running) < max_workers
    /\ stage' = [stage EXCEPT ![v] = 1]
    /\ UNCHANGED <<pc, futures, completed, results, printed>>

\* lines 48-79: a command before the score script exits with status 0
StepDone(v) ==
    /\ stage[v] \in 1..(STEPS - 1)
    /\ stage' = [stage EXCEPT ![v] = stage[v] + 1]
    /\ UNCHANGED <<pc, futures, completed, results, printed>>

\* lines 108-112: a step raises, or its command exits with another status
StepFailed(v) ==
    /\ stage[v] \in 1..STEPS
    /\ futures' = [futures EXCEPT ![v] = failed(v, stage[v])]
    /\ stage' = [stage EXCEPT ![v] = DONE]
    /\ UNCHANGED <<pc, completed, results, printed>>

\* lines 82-106: the score script exits with status 0, its output is parsed
Scored(v) ==
    /\ stage[v] = STEPS
    /\ \E lines \in ScoreOutputs :
          futures' = [futures EXCEPT ![v] = parsed(v, lines)]
    /\ stage' = [stage EXCEPT ![v] = DONE]
    /\ UNCHANGED <<pc, completed, results, printed>>

\* a worker process dies while it runs a call: the pool is broken, and every
\* future that is not done holds BrokenProcessPool
WorkerDied(v) ==
    /\ stage[v] \in 1..STEPS
    /\ futures' = [u \in Variants |->
                      IF stage[u] < DONE THEN BrokenProcessPool ELSE futures[u]]
    /\ stage' = [u \in Variants |-> IF stage[u] < DONE THEN DONE ELSE stage[u]]
    /\ UNCHANGED <<pc, completed, results, printed>>

\* lines 127-132: as_completed yields a future that holds a result
Completed(v) ==
    /\ pc = "bt_wait"
    /\ stage[v] = DONE
    /\ futures[v] # BrokenProcessPool
    /\ results' = Append(results, futures[v])
    /\ completed' = Append(completed, [name |-> EXPERIMENTS[v], ok |-> TRUE])
    /\ stage' = [stage EXCEPT ![v] = YIELDED]
    /\ UNCHANGED <<pc, futures, printed>>

\* lines 127-134: as_completed yields a future that holds an exception
Failed(v) ==
    /\ pc = "bt_wait"
    /\ stage[v] = DONE
    /\ futures[v] = BrokenProcessPool
    /\ completed' = Append(completed, [name |-> EXPERIMENTS[v], ok |-> FALSE])
    /\ stage' = [stage EXCEPT ![v] = YIELDED]
    /\ UNCHANGED <<pc, futures, results, printed>>

AllYielded == \A v \in Variants : stage[v] = YIELDED

\* lines 137-152: the table
Display ==
    /\ pc = "bt_wait"
    /\ AllYielded
    /\ \A k \in 1..Len(results) : sort_key(results[k]) # ValueError
    /\ results' = sorted_results(results)
    /\ printed' = <<HEADER>>
                     \o [k \in 1..Len(results) |-> row(results'[k])]
                     \o <<RULE>>
    /\ pc' = "bt_done"
    /\ UNCHANGED <<stage, futures, completed>>

\* lines 137-144: the key of a result raises ValueError, the sort is
\* abandoned and main ends with the traceback
DisplayError ==
    /\ pc = "bt_wait"
    /\ AllYielded
    /\ \E k \in 1..Len(results) : sort_key(results[k]) = ValueError
    /\ printed' = <<HEADER>>
    /\ pc' = "bt_error"
    /\ UNCHANGED <<stage, futures, completed, results>>

bt_idle == <<mode, in_file, out_file, lineno, sents, cur, err, wi, wj, status,
             feat_vars, bio_vars, lex_vars, ea_vars>>

NextBatch ==
    \/ \E v \in Variants : Start(v) /\ UNCHANGED bt_idle
    \/ \E v \in Variants : StepDone(v) /\ UNCHANGED bt_idle
    \/ \E v \in Variants : StepFailed(v) /\ UNCHANGED bt_idle
    \/ \E v \in Variants : Scored(v) /\ UNCHANGED bt_idle
    \/ \E v \in Variants : WorkerDied(v) /\ UNCHANGED bt_idle
    \/ \E v \in Variants : Completed(v) /\ UNCHANGED bt_idle
    \/ \E v \in Variants : Failed(v) /\ UNCHANGED bt_idle
    \/ (Display /\ UNCHANGED bt_idle)
    \/ (DisplayError /\ UNCHANGED bt_idle)

SpecBatch == InitBatch /\ [][NextBatch]_vars

\* ------------------------------------------------------------------------
\* Properties of build_features.py (specification Spec)
\* ------------------------------------------------------------------------

\* the file has been read whole and accepted
Accepted == pc \in {"open", "write", "sanity", "done"}

\* write_features has returned
Written == pc \in {"sanity", "done"}

\* the number of fields the contract of the Corpus Reader asks of a line
RequiredFields == IF mode = "train" THEN 3 ELSE 2

IsBlank(line) == line = BlankLine

\* C1: for every input file read_wsj accepts, in labelled and in unlabelled
\* mode, the file write_features has written has as many lines as the input;
\* line k is blank where input line k is blank, and is otherwise a
\* non-blank line that starts with the surface form of input line k.
C1_LineForLine ==
    Written =>
        /\ out_file # NoFile
        /\ Len(out_file) = Len(in_file)
        /\ \A k \in 1..Len(in_file) :
              IF IsBlank(in_file[k])
              THEN IsBlank(out_file[k])
              ELSE ~IsBlank(out_file[k]) /\ out_file[k][1] = in_file[k][1]

\* a written file with a leading blank line, two blank lines in a row and
\* token lines
C1_Witness ==
    /\ pc = "done"
    /\ Len(in_file) = 4
    /\ IsBlank(in_file[1]) /\ IsBlank(in_file[2])
    /\ ~IsBlank(in_file[3]) /\ ~IsBlank(in_file[4])
    /\ Len(out_file) = 4

\* the lines of the corpus, one entry per sentence token and one "blank"
\* per empty sentence
RECURSIVE CorpusLines(_)
CorpusLines(ss) ==
    IF ss = <<>> THEN <<>>
    ELSE (IF Head(ss) = <<>> THEN <<"blank">> ELSE Head(ss)) \o CorpusLines(Tail(ss))

\* what input line k is to the corpus: "blank", or its word, its POS and,
\* in labelled mode, its label
LineEntry(line) ==
    IF IsBlank(line) THEN "blank"
    ELSE <<line[1], line[2], IF mode = "train" THEN line[3] ELSE None>>

\* C2: the corpus read_wsj returns has one empty sentence for every blank
\* line, at its place (leading, trailing and consecutive ones included),
\* its non-empty sentences hold the tokens of the non-blank lines in line
\* order, and no two non-empty sentences are adjacent: every maximal run of
\* non-blank lines is exactly one sentence.
C2_Sentences ==
    Accepted =>
        /\ CorpusLines(sents) = [k \in 1..Len(in_file) |-> LineEntry(in_file[k])]
        /\ \A k \in 1..(Len(sents) - 1) : sents[k] = <<>> \/ sents[k + 1] = <<>>

\* a corpus read from: blank, token, token, blank
C2_Witness ==
    /\ pc = "open"
    /\ Len(in_file) = 4
    /\ IsBlank(in_file[1]) /\ ~IsBlank(in_file[2])
    /\ ~IsBlank(in_file[3]) /\ IsBlank(in_file[4])
    /\ Len(sents) = 3
    /\ Len(sents[2]) = 2

\* line is a non-blank line with too few fields for the mode
Malformed(line) == ~IsBlank(line) /\ Len(line) < RequiredFields

\* C3: read_wsj raises the format error exactly at the first non-blank line
\* with fewer than 3 fields in labelled mode, or fewer than 2 in unlabelled
\* mode, and the error quotes that line; no corpus is returned then (nothing
\* is written); a line with the required number of fields is never
\* rejected, and a file is accepted only if it has no such line.
C3_FormatError ==
    /\ pc = "error" =>
          /\ lineno < Len(in_file)
          /\ Malformed(in_file[lineno + 1])
          /\ err = in_file[lineno + 1]
          /\ \A k \in 1..lineno : ~Malformed(in_file[k])
          /\ out_file = NoFile
    /\ pc = "read" => \A k \in 1..lineno : ~Malformed(in_file[k])
    /\ Accepted => \A k \in 1..Len(in_file) : ~Malformed(in_file[k])
    /\ pc # "error" => err = None

\* the error raised in labelled mode at a two-field line that follows an
\* accepted three-field line
C3_Witness ==
    /\ pc = "error"
    /\ mode = "train"
    /\ lineno = 1
    /\ Len(in_file[1]) = 3
    /\ Len(in_file[2]) = 2
    /\ err = in_file[2]

\* the first and the last line of the run of non-blank lines around line k
RunStart(k) ==
    CHOOSE a \in 1..k :
        /\ \A j \in a..k : ~IsBlank(in_file[j])
        /\ a = 1 \/ IsBlank(in_file[a - 1])

RunEnd(k) ==
    CHOOSE b \in k..Len(in_file) :
        /\ \A j \in k..b : ~IsBlank(in_file[j])
        /\ b = Len(in_file) \/ IsBlank(in_file[b + 1])

\* the sentence input line k belongs to
SentenceOfLine(k) ==
    [j \in 1..(RunEnd(k) - RunStart(k) + 1) |->
        LineEntry(in_file[RunStart(k) + j - 1])]

\* C9: every non-blank line written so far has the surface form of its
\* token as first field, then the features of that token in the order
\* token_feats returns them; in train mode the gold label of the input line
\* follows as the last field, and in dev and test mode nothing follows the
\* features, also when the input line has a third column.
C9_FeatureLine ==
    pc \in {"write", "sanity", "done"} =>
        \A k \in 1..Len(out_file) :
            ~IsBlank(out_file[k]) =>
                LET line == out_file[k]
                    fs == token_feats(SentenceOfLine(k), k - RunStart(k), TRUE)
                IN  /\ ~IsBlank(in_file[k])
                    /\ line[1] = in_file[k][1]
                    /\ Len(line) = 1 + Len(fs) + (IF mode = "train" THEN 1 ELSE 0)
                    /\ SubSeq(line, 2, 1 + Len(fs)) = fs
                    /\ mode = "train" => line[Len(line)] = in_file[k][3]

\* a file written in dev mode from input lines that carry a third column
C9_Witness ==
    /\ pc = "done"
    /\ mode = "dev"
    /\ Len(out_file) = 2
    /\ \A k \in 1..Len(in_file) : Len(in_file[k]) >= 3
    /\ \A k \in 1..Len(out_file) :
          Len(out_file[k]) = 1 + Len(token_feats(SentenceOfLine(k), k - 1, TRUE))

\* ------------------------------------------------------------------------
\* Properties of token_feats (specification SpecFeats)
\* ------------------------------------------------------------------------

\* token_feats has returned feats for (sent, idx)
Returned == pc = "returned"

\* the bare flag name is among the features returned
Emits(name) == \E k \in 1..Len(feats) : feats[k] = <<name>>

\* C5: for every non-empty sentence and every index of it, BOS is emitted
\* if and only if the index is 0, BOS2 if and only if it is at most 1, EOS
\* if and only if it is len-1 and EOS2 if and only if it is at least len-2.
C5_BoundaryMarkers ==
    Returned =>
        /\ Emits("BOS") <=> idx = 0
        /\ Emits("BOS2") <=> idx <= 1
        /\ Emits("EOS") <=> idx = Len(sent) - 1
        /\ Emits("EOS2") <=> idx >= Len(sent) - 2

\* the second token of a sentence of four: BOS2 alone is emitted
C5_Witness ==
    /\ Returned
    /\ Len(sent) = 4
    /\ idx = 1
    /\ Emits("BOS2")
    /\ ~Emits("BOS") /\ ~Emits("EOS") /\ ~Emits("EOS2")

\* C6: every position of the sentence token_feats subscripts (its own
\* token, the four neighbour lookups, the backward scans for a quantifier
\* and for a comma and the window of the proper-noun count) lies in
\* 0..len-1: no subscript is negative and none is past the end.
C6_ReadsInside ==
    Returned => \A j \in reads : 0 <= j /\ j < Len(sent)

\* the comma of "IBM , IBM": the neighbour lookups at -1 and 3 are refused
\* and the window of the proper-noun count is cut at both ends
C6_Witness ==
    /\ Returned
    /\ Len(sent) = 3
    /\ idx = 1
    /\ sent[1][2] = T_NNP /\ sent[2][2] = Comma /\ sent[3][2] = T_NNP
    /\ reads = {0, 1, 2}

\* the features of the previous-label slot among the features returned
PrevBioFeats ==
    SelectSeq(feats, LAMBDA f : f[1] \in {"PrevBIO", "PrevBIO+p1pos", "PrevBIO+pos"})

\* C7: the features of a token do not depend on the chunk labels of the
\* sentence: they are those of the same sentence without labels; and the
\* previous-label slot holds the constant marker: PrevBIO=@@, then
\* PrevBIO+p1pos=@@+<previous POS> when there is a previous token, then
\* PrevBIO+pos=@@+<POS>.
C7_LabelIndependent ==
    Returned =>
        /\ feats = token_feats(with_labels(sent, None), idx, TRUE)
        /\ PrevBioFeats =
              << <<"PrevBIO", <<"@","@">> >> >>
              \o (IF idx >= 1
                  THEN << <<"PrevBIO+p1pos", <<"@","@">>, sent[idx][2]>> >>
                  ELSE <<>>)
              \o << <<"PrevBIO+pos", <<"@","@">>, sent[idx + 1][2]>> >>

\* the features of a token whose previous token carries the label O
C7_Witness ==
    /\ Returned
    /\ idx = 2
    /\ sent[2][3] = O_tag
    /\ Len(PrevBioFeats) = 3

\* ------------------------------------------------------------------------
\* Properties of analyze_bio_violations.py (specification SpecBio)
\* ------------------------------------------------------------------------

\* the scan is over
Scanned ==
    \/ pc \in {"bio_done", "bio_error"}
    \/ pc = "scan" /\ zi = zip_len(pos_sents, gold_sents, pred_sents)

\* the token indexes recorded for the sentence at 0-based position z, in
\* the order of the records
RecordedAt(z) ==
    LET mine == SelectSeq(violations, LAMBDA v : v.sent_idx = z)
    IN  [k \in 1..Len(mine) |-> mine[k].token_idx]

\* the positions a sentence of predicted tags has O followed by I-NP at, in
\* increasing order
RECURSIVE IllegalFrom(_, _)
IllegalFrom(tags, i) ==
    IF i >= Len(tags) THEN <<>>
    ELSE (IF i >= 1 /\ tags[i] = <<"O">> /\ tags[i + 1] = <<"I","-","N","P">>
          THEN <<i>> ELSE <<>>) \o IllegalFrom(tags, i + 1)

\* the three files have a sentence at position z, and it has as many gold
\* and predicted tags as tokens
Aligned(z) ==
    /\ z < Len(gold_sents) /\ z < Len(pred_sents)
    /\ Len(gold_sents[z + 1]) = Len(pos_sents[z + 1])
    /\ Len(pred_sents[z + 1]) = Len(pos_sents[z + 1])

\* C4: for every sentence with aligned part-of-speech, gold and predicted
\* sequences, the records of the scan for that sentence are, once each and
\* in order, the positions i >= 1 with predicted[i-1] = O and
\* predicted[i] = I-NP: none when there is no such adjacency, and none for
\* an I-NP at the start of the sentence.
C4_ViolationScan ==
    Scanned =>
        \A z \in 0..(Len(pos_sents) - 1) :
            Aligned(z) => RecordedAt(z) = IllegalFrom(pred_sents[z + 1], 0)

\* a scan over a sentence predicted I-NP O I-NP: position 2 is recorded and
\* the initial I-NP is not
C4_Witness ==
    /\ pc = "bio_done"
    /\ Len(pred_sents) = 1
    /\ pred_sents[1] = <<I_NP, O_tag, I_NP>>
    /\ Aligned(0)
    /\ RecordedAt(0) = <<2>>

\* the last fields of the lines of a file that have at least two fields
RECURSIVE FileTags(_)
FileTags(file) ==
    IF file = <<>> THEN <<>>
    ELSE (IF Len(Head(file)) >= 2 THEN <<Head(file)[Len(Head(file))]>> ELSE <<>>)
         \o FileTags(Tail(file))

\* the tags of the sentences, in order
RECURSIVE Flatten(_)
Flatten(ss) == IF ss = <<>> THEN <<>> ELSE Head(ss) \o Flatten(Tail(ss))

\* the tag sequences held are those of the files, and every record holds
\* the tags of its sentence as read, its own predicted tag I-NP included
TagsAsRead ==
    /\ Flatten(pred_sents) = FileTags(pred_file)
    /\ Flatten(gold_sents) = FileTags(gold_file)
    /\ \A k \in 1..Len(violations) :
          LET v == violations[k]
          IN  /\ v.pred_tags = pred_sents[v.sent_idx + 1]
              /\ v.gold_tags = gold_sents[v.sent_idx + 1]
              /\ v.pred = v.pred_tags[v.token_idx + 1]
              /\ v.gold = v.gold_tags[v.token_idx + 1]

\* C10: the analysis changes no label: no step writes one of the three
\* files, and from the reading on, through the scan and the aggregation,
\* the predicted and gold sequences are the tags of the files and every
\* record holds the tags of its sentence unchanged; the report holds counts
\* only.
C10_DiagnosisOnly ==
    [][ /\ pos_file' = pos_file
        /\ gold_file' = gold_file
        /\ pred_file' = pred_file
        /\ TagsAsRead'
        /\ pc # "bio_main" => (pred_sents' = pred_sents /\ gold_sents' = gold_sents)
        /\ report' # NoReport =>
              DOMAIN report' = {"printed", "found", "pos_counter", "gold_counter",
                                "next_pred_counter"} ]_vars

\* a finished analysis that found a violation and reported it
C10_Witness ==
    /\ pc = "bio_done"
    /\ Len(violations) >= 1
    /\ report.found = Len(violations)
    /\ pred_sents[1] = <<O_tag, I_NP>>


\* ------------------------------------------------------------------------
\* Properties of error_analysis.py (specification SpecErr)
\* ------------------------------------------------------------------------

\* line j (0-based) of the key is a token line and the response line at the
\* same position starts with another token
MismatchLine(j) ==
    /\ j < Len(key)
    /\ j < Len(resp)
    /\ key[j + 1] # BlankLine
    /\ Len(key[j + 1]) = 2
    /\ key[j + 1][1] # resp[j + 1][1]

\* main has left the loop by sys.exit or by an exception
ErrAborted == {"ea_exit3", "ea_error"}

\* main is in the loop over the lines or past it
LoopStates == {"ea_loop", "ea_done"} \cup ErrAborted

\* a diagnostic that names line j is on stderr
Diagnosed(j) ==
    \E n \in 1..Len(stderr) :
        "line" \in DOMAIN stderr[n] /\ stderr[n].line = j

\* C11: a token mismatch between the key line and the response line at the
\* same position aborts the run with a diagnostic naming the line index: the
\* loop never goes past a mismatching line, so that no later line is
\* counted, and no report is written after a mismatch.
C11_MismatchAborts ==
    \A j \in 0..(Len(key) - 1) :
        (MismatchLine(j) /\ line_i >= j /\ pc \in LoopStates) =>
            /\ line_i = j
            /\ pc = "ea_loop" \/ (pc \in ErrAborted /\ Diagnosed(j))
            /\ out_dir = NoOutput

\* ------------------------------------------------------------------------
\* Properties of the sanity check of build_features.py (specification
\* SpecShared)
\* ------------------------------------------------------------------------

\* the two counts of lines 338 and 340 differ
CountsDiffer == Len(in_file) # Len(out_file)

\* C12: when the line count of the written feature file differs from the
\* line count of the input corpus, main prints a warning and still
\* terminates normally, keeping the written feature file: the step of the
\* sanity check never aborts the run and never touches the file.
C12_WarnAndContinue ==
    [][(pc = "sanity" /\ pc' # "sanity") =>
          /\ pc' = "done"
          /\ out_file' = out_file
          /\ out_file' # NoFile
          /\ status' = IF CountsDiffer THEN "WARN" ELSE "OK"]_vars

\* the sanity check has warned about a feature file of three lines and main
\* has terminated
C12_Witness ==
    /\ pc = "done"
    /\ status = "WARN"
    /\ CountsDiffer
    /\ out_file # NoFile
    /\ Len(out_file) = 3

\* ------------------------------------------------------------------------
\* Properties of coarse_pos and word_shape (specification SpecLex)
\* ------------------------------------------------------------------------

\* the tags coarse_pos maps: four families by their first two letters, the
\* wh-words by their first letter, and sixteen tags by name
Mapped(t) ==
    \/ \E p \in {T_NN, T_JJ, T_RB, T_VB, <<"W">>} :
          Len(t) >= Len(p) /\ SubSeq(t, 1, Len(p)) = p
    \/ t \in {T_DT, T_PRP, T_PRPS, T_IN, T_CD, T_CC, T_TO, T_POS, Comma,
              Period, Colon, Semicolon, T_LRB, T_RRB, OpenQuotes, CloseQuotes}

\* C13 as stated: coarse_pos returns a non-empty value for every fine tag
\* that can occur as the second field of a line read_wsj accepts, and returns
\* a tag it does not map unchanged.
C13_CoarseNonEmpty ==
    cpos # None =>
        /\ cpos # <<>>
        /\ ~Mapped(word) => cpos = word

\* C13, amended: coarse_pos returns a non-empty value for every non-empty
\* fine tag, and returns a tag it does not map unchanged; the empty second
\* field, which read_wsj accepts, is such a tag and comes back empty.
C13_CoarseNonEmptyTags ==
    cpos # None =>
        /\ word # <<>> => cpos # <<>>
        /\ word = <<>> => cpos = <<>>
        /\ ~Mapped(word) => cpos = word

\* coarse_pos has returned the tag MD, which it does not map
C13_Witness ==
    /\ cpos # None
    /\ word = T_MD
    /\ ~Mapped(word)
    /\ cpos = T_MD

\* the symbols of the three classes whose runs are collapsed
RunSymbols == {"X", "x", "d"}

\* the characters copied as they are
Copied == {"-", "'", "/"}

IsOther(ch) == ~ch_isupper(ch) /\ ~ch_islower(ch) /\ ~ch_isdigit(ch) /\ ch \notin Copied

\* the positions of w whose character gives a symbol: every position but
\* those that continue a run of uppercase, of lowercase or of digits
Kept(w) ==
    {k \in 1..Len(w) :
        \/ k = 1
        \/ shape_class(w[k]) \notin RunSymbols
        \/ shape_class(w[k]) # shape_class(w[k - 1])}

\* the place in the shape of the symbol position k of w gives
PlaceOf(w, k) == Cardinality({j \in Kept(w) : j <= k})

\* the positions of s that hold c
Occurrences(s, c) == {k \in 1..Len(s) : s[k] = c}

\* the first positions of the maximal runs of class c in w
RunStarts(w, c) ==
    {k \in 1..Len(w) :
        shape_class(w[k]) = c /\ (k = 1 \/ shape_class(w[k - 1]) # c)}

\* C14: word_shape collapses every maximal run of uppercase letters, of
\* lowercase letters and of digits to one symbol (X, x, d) and copies each
\* hyphen, apostrophe and slash verbatim at its place: "AAAbbb123" gives
\* Xxd, "co-op's" gives x-x'x, and the result never has two adjacent equal
\* symbols from {X, x, d}.
C14_ShapeRuns ==
    shape # None =>
        /\ word = w_AAAbbb123 => shape = <<"X", "x", "d">>
        /\ word = w_coops => shape = <<"x", "-", "x", "'", "x">>
        /\ \A k \in 1..(Len(shape) - 1) :
              shape[k] \in RunSymbols => shape[k + 1] # shape[k]
        /\ \A c \in RunSymbols :
              Cardinality(Occurrences(shape, c)) = Cardinality(RunStarts(word, c))
        /\ Len(shape) = Cardinality(Kept(word))
        /\ \A k \in 1..Len(word) :
              word[k] \in Copied => shape[PlaceOf(word, k)] = word[k]
        /\ \A k \in 1..Len(word) :
              shape_class(word[k]) \in RunSymbols =>
                  shape[PlaceOf(word, k)] = shape_class(word[k])

\* word_shape has returned x-x'x for "co-op's"
C14_Witness ==
    /\ shape # None
    /\ word = w_coops
    /\ shape = <<"x", "-", "x", "'", "x">>

\* C19 as stated: word_shape collapses the runs of every class, the class
\* of the other characters included: a run of characters that are neither
\* letters, digits nor hyphen, apostrophe or slash yields one symbol, as
\* "..." does.
C19_OtherRunsCollapsed ==
    shape # None =>
        /\ \A k \in 1..(Len(shape) - 1) :
              ~(shape[k] = "_" /\ shape[k + 1] = "_")
        /\ word = <<".", ".", ".">> => Len(shape) = 1

\* C19, amended: word_shape collapses the runs of uppercase letters, of
\* lowercase letters and of digits only; every character that is neither a
\* letter, a digit nor a hyphen, apostrophe or slash yields its own symbol
\* at its place, so that "..." yields three symbols.
C19_OtherNotCollapsed ==
    shape # None =>
        /\ Cardinality(Occurrences(shape, "_"))
              = Cardinality({k \in 1..Len(word) : IsOther(word[k])})
        /\ \A k \in 1..Len(word) :
              IsOther(word[k]) =>
                  /\ k \in Kept(word)
                  /\ PlaceOf(word, k) <= Len(shape)
                  /\ shape[PlaceOf(word, k)] = "_"
        /\ word = <<".", ".", ".">> => shape = <<"_", "_", "_">>

\* word_shape has returned three symbols for "..."
C19_Witness ==
    /\ shape # None
    /\ word = <<".", ".", ".">>
    /\ shape = <<"_", "_", "_">>

\* ------------------------------------------------------------------------
\* Properties of token_feats on coordinations (specification SpecCoord)
\* ------------------------------------------------------------------------

\* the token at offset o of the current one, where it is inside the sentence
Inside(o) == idx + o >= 0 /\ idx + o < Len(sent)
At(o) == sent[idx + o + 1]
PosAt(o) == At(o)[2]

\* the tag begins with the letters of tag p
Family(t, p) == Len(t) >= Len(p) /\ SubSeq(t, 1, Len(p)) = p

\* the feature name=value is among the features returned
EmitsValue(name, value) ==
    \E k \in 1..Len(feats) : feats[k] = <<name, value>>

\* a feature of that name is among the features returned
EmitsNamed(name) ==
    \E k \in 1..Len(feats) : feats[k][1] = name

\* C15: on a conjunction token whose previous and next tokens are both
\* tagged as proper nouns (NNP CC NNP) token_feats emits nnp_and_nnp; on the
\* conjunction token of the pattern JJ CC JJ NN it emits adj_coord_before_n.
C15_CoordinationFlags ==
    (Returned /\ PosAt(0) = T_CC) =>
        /\ (Inside(-1) /\ Inside(1)
               /\ Family(PosAt(-1), T_NNP) /\ Family(PosAt(1), T_NNP))
              => Emits("nnp_and_nnp")
        /\ (Inside(-1) /\ Inside(2)
               /\ Family(PosAt(-1), T_JJ) /\ Family(PosAt(1), T_JJ)
               /\ Family(PosAt(2), T_NN))
              => Emits("adj_coord_before_n")

\* the conjunction of "red and red cars" has adj_coord_before_n and not
\* nnp_and_nnp
C15_Witness ==
    /\ Returned
    /\ sent = with_labels(<< <<w_red, T_JJ>>, <<w_and, T_CC>>, <<w_red, T_JJ>>,
                             <<w_cars, T_NNS>> >>, None)
    /\ idx = 1
    /\ Emits("adj_coord_before_n")
    /\ ~Emits("nnp_and_nnp")

\* the names of the fine-POS and of the coarse-POS feature of each offset
PosName(o) ==
    CASE o = -2 -> "p2pos" [] o = -1 -> "p1pos" [] o = 1 -> "n1pos"
      [] o = 2 -> "n2pos"

CposName(o) ==
    CASE o = -2 -> "p2cpos" [] o = -1 -> "p1cpos" [] o = 1 -> "n1cpos"
      [] o = 2 -> "n2cpos"

\* C17: for each context offset among -2, -1, +1, +2 that lies inside the
\* sentence, token_feats emits both the fine-POS and the coarse-POS feature
\* of the token at that offset, and none where the offset is outside;
\* surface-form features are emitted for the offsets -1 and +1 only.
C17_PosAndCposAtEachOffset ==
    Returned =>
        /\ \A o \in {-2, -1, 1, 2} :
              IF Inside(o)
              THEN /\ EmitsValue(PosName(o), PosAt(o))
                   /\ EmitsValue(CposName(o), coarse_pos(PosAt(o)))
              ELSE ~EmitsNamed(PosName(o)) /\ ~EmitsNamed(CposName(o))
        /\ Inside(-1) <=> EmitsNamed("p1w")
        /\ Inside(1) <=> EmitsNamed("n1w")
        /\ Inside(-1) => EmitsValue("p1w", At(-1)[1])
        /\ Inside(1) => EmitsValue("n1w", At(1)[1])
        /\ ~EmitsNamed("p2w") /\ ~EmitsNamed("n2w")
        /\ ~EmitsNamed("p2wl") /\ ~EmitsNamed("n2wl")

\* the tags CC_F3 takes for nominal, and for nominal, adjectival or numeral
Nominal == {T_NN, T_NNS, T_NNP, T_NNPS}
NominalAdjNum == Nominal \cup {T_JJ, T_CD}

\* C18: for a token whose lowercase form is and, or, or &, with both
\* neighbours present: when both neighbours are nominal, adjectival or
\* numeral and the token two positions ahead is nominal, token_feats emits
\* cc_phrase_level (as on the conjunction of JJ CC JJ NN); when both
\* neighbours qualify but the token two positions ahead is not nominal or
\* does not exist, it emits cc_sentence_level.
C18_PhraseOrSentenceLevel ==
    (/\ Returned
     /\ str_lower(At(0)[1]) \in {w_and, w_or, w_amp}
     /\ Inside(-1) /\ Inside(1)
     /\ PosAt(-1) \in NominalAdjNum
     /\ PosAt(1) \in NominalAdjNum) =>
        IF Inside(2) /\ PosAt(2) \in Nominal
        THEN Emits("cc_phrase_level")
        ELSE Emits("cc_sentence_level")

\* C20: token_feats emits nnp_and_nnp only when the current token is a
\* coordinating conjunction whose previous and next tokens are proper
\* nouns, and never on a token that is not a conjunction.
C20_OnlyOnConjunction ==
    (Returned /\ Emits("nnp_and_nnp")) =>
        /\ PosAt(0) = T_CC
        /\ Inside(-1) /\ Inside(1)
        /\ Family(PosAt(-1), T_NNP) /\ Family(PosAt(1), T_NNP)

\* ------------------------------------------------------------------------
\* Properties of batch_test.py (specification SpecBatch)
\* ------------------------------------------------------------------------

\* main has ended, with the table or with a traceback
BatchEnded == pc \in {"bt_done", "bt_error"}

\* the lines of the table that name experiment v
RowsOf(v) == {k \in 1..Len(printed) : printed[k].name = EXPERIMENTS[v]}

\* C16: the failure of one experiment variant (a step of its pipeline
\* raising or exiting non-zero, or its score output missing a metric) never
\* prevents the other variants from completing and being reported: when
\* no worker process has died and main has ended, every variant has
\* completed, the results table is printed and every variant has exactly
\* one line in it, with its metrics or with its error.
C16_EveryVariantReported ==
    (BatchEnded /\ \A v \in Variants : futures[v] # BrokenProcessPool) =>
        /\ pc = "bt_done"
        /\ \A v \in Variants :
              /\ stage[v] = YIELDED
              /\ Cardinality(RowsOf(v)) = 1
              /\ \A k \in RowsOf(v) : printed[k] = row(futures[v])

\* ------------------------------------------------------------------------
\* The reset of the scan of analyze_bio_violations (SpecBio)
\* ------------------------------------------------------------------------

\* the predicted tags of a sentence end in O
EndsInO(tags) == tags # <<>> /\ tags[Len(tags)] = O_tag

\* the predicted tags of a sentence start with I-NP
StartsWithI(tags) == tags # <<>> /\ tags[1] = I_NP

\* C22: in the violation scan the previous-predicted-label state is the
\* start marker at the first token of every sentence and the label of the
\* token before at every other token; so every record has a token index
\* >= 1, with O predicted just before it in its own sentence, and an O at
\* the end of one sentence followed by an I-NP at the start of the next
\* produces no record.
C22_ResetPerSentence ==
    /\ pc = "tokens" =>
          prev_pred = IF tok_i = 0 THEN START_MARK
                      ELSE subscript(subscript(pred_sents, zi), tok_i - 1)
    /\ \A k \in 1..Len(violations) :
          LET v == violations[k]
          IN  /\ v.token_idx >= 1
              /\ subscript(v.pred_tags, v.token_idx - 1) = O_tag
              /\ subscript(v.pred_tags, v.token_idx) = I_NP

\* a finished scan of three files of a token predicted O, a blank line and
\* a token predicted I-NP: nothing is recorded
C22_Witness ==
    /\ pc = "bio_done"
    /\ Len(pred_file) = 3
    /\ pred_file[2] = BlankLine
    /\ \E z \in 1..(Len(pred_sents) - 1) :
          /\ EndsInO(pred_sents[z])
          /\ \E y \in (z + 1)..Len(pred_sents) :
                /\ StartsWithI(pred_sents[y])
                /\ \A x \in (z + 1)..(y - 1) : pred_sents[x] = <<>>
    /\ violations = <<>>

\* the number of times the flag name is in the feature list
Times(name) == Cardinality({k \in 1..Len(feats) : feats[k] = <<name>>})

\* C23: token_feats never emits both cc_phrase_level and cc_sentence_level
\* for the same token, for any sentence and any index; the one it emits
\* is in the list once.
C23_OneCoordinationLevel ==
    Returned =>
        /\ ~(Emits("cc_phrase_level") /\ Emits("cc_sentence_level"))
        /\ Times("cc_phrase_level") + Times("cc_sentence_level") <= 1

\* "cars and cars cars": a conjunction between two nouns, followed by a
\* third noun, has the phrase-level flag alone
C23_Witness ==
    /\ Returned
    /\ Len(sent) = 4
    /\ idx = 1
    /\ subscript(sent, 1)[1] = w_and
    /\ \A j \in {0, 2, 3} : subscript(sent, j)[2] = T_NNS
    /\ Emits("cc_phrase_level")
    /\ ~Emits("cc_sentence_level")

\* C24: the title-case flag and the all-caps flag of token_feats are
\* mutually exclusive: no token gets both isTitle=true and isAllCaps=true.
C24_TitleExcludesAllCaps ==
    Returned =>
        ~(EmitsValue("isTitle", tf(TRUE)) /\ EmitsValue("isAllCaps", tf(TRUE)))

\* ------------------------------------------------------------------------
\* The context window of token_feats (SpecWindow)
\* ------------------------------------------------------------------------

\* the first and one past the last position of the window of token i:
\* offsets -5 to +3, as far as the sentence goes
WindowLo(i) == max0(i - 5)

WindowHi(s, i) == min2(Len(s), i + 4)

\* the sentence with every token outside the window of token i removed
Clip(s, i) == SubSeq(s, WindowLo(i) + 1, WindowHi(s, i))

\* the sentence has a token outside the window of token i
HasFarToken(s, i) == WindowLo(i) > 0 \/ WindowHi(s, i) < Len(s)

\* C25: the feature list of token i depends only on the tokens at offsets
\* -5 to +3 from i and on whether those positions exist: it is the list
\* token_feats returns for the same token of the sentence cut down to that
\* window, so two sentences that agree on the window (whatever is
\* replaced, added or removed outside it) have the same list; and
\* token_feats subscripts no position outside the window.
C25_WindowOnly ==
    Returned =>
        /\ feats = token_feats(Clip(sent, idx), idx - WindowLo(idx), TRUE)
        /\ \A j \in reads : WindowLo(idx) <= j /\ j < WindowHi(sent, idx)

\* ", IBM IBM IBM IBM and IBM" at its last token: the comma is six tokens
\* back, outside the scan of CC_F2, and the list flag is not emitted
C25_Witness ==
    /\ Returned
    /\ Len(sent) = 7
    /\ idx = 6
    /\ HasFarToken(sent, idx)
    /\ is_comma(subscript(sent, 0))
    /\ \A j \in 1..5 : ~is_comma(subscript(sent, j))
    /\ subscript(sent, 5)[1] = w_and
    /\ subscript(sent, 6)[2] = T_NNP
    /\ ~Emits("list_coord_after_comma")

\* ------------------------------------------------------------------------
\* Properties of SpecExisting
\* ------------------------------------------------------------------------

\* C21: when main meets a malformed corpus line the run aborts before the
\* output file is opened: no step of reading and validating the input
\* touches OUTPUT_PATH, the file is opened only once the whole input has
\* been read, and at the format error the path is as it was before the run
\* (not created, not truncated) and stays so.
C21_AbortBeforeOpen ==
    [][ /\ pc \in {"main", "read"} => out_file' = out_file
        /\ out_file' # out_file => pc \in {"open", "write"}
        /\ pc' = "open" => lineno = Len(in_file) /\ pc = "read"
        /\ pc' = "error" =>
              /\ lineno < Len(in_file)
              /\ out_file' \in {NoFile, OldOutput}
              /\ out_file' = out_file
        /\ pc = "error" => pc' = "error" /\ out_file' = out_file ]_vars

\* the format error at the second line, after one accepted line, with the
\* file of the earlier run still whole
C21_Witness ==
    /\ pc = "error"
    /\ lineno = 1
    /\ in_file[1] # BlankLine
    /\ out_file = OldOutput

=============================================================================
